---- MODULE Spec2Model ----
(***************************************************************************)
(* A model of the finprobe market-data pipeline:                           *)
(*   - the binary frame decoder          (src/test.py)                     *)
(*   - the batch cumulative-volume fix   (src/live_trend_analyzer.py,      *)
(*                                        src/calculate_indecator.py)      *)
(*   - the live candle builder, the indicator engine and the loop that     *)
(*     drives them                       (src/indecator.py)                *)
(*   - the whole batch analysis in its two variants                        *)
(*                                       (src/live_trend_analyzer.py,      *)
(*                                        src/calculate_indecator.py)      *)
(*   - the three batch RSI computations  (the two above and                *)
(*                                        src/calculate_indicators.py)     *)
(*   - the websocket message handler and the tick store                    *)
(*                                       (src/ws_client.py,                *)
(*                                        src/db_writer.py, src/init_db.py)*)
(*                                                                         *)
(* Numbers the code keeps as floats are kept here as exact rationals       *)
(* <<numerator, denominator>>; prices, volumes and timestamps are drawn    *)
(* from small sets so that every value fits TLC's integers.                *)
(***************************************************************************)
EXTENDS Integers, Sequences, FiniteSets, TLC

VARIABLES
    \* ---- decoder (src/test.py) ----
    frameIn,     \* the parameters the input frame was built from
    buf,         \* binary_data: the byte buffer handed to parse_market_data
    dpc,         \* "ready" before the call, "done" after it
    dres,        \* what the call produced: a record, or the exception raised
    \* ---- batch analysis (calculate_intraday_indicators) ----
    cumIn,       \* the cumulative volume column as it was read
    df,          \* the tick table, one record per row, ordered by timestamp
    bpc,         \* the place the function has reached
    bres,        \* the locals computed so far, or the error dict returned
    \* ---- live loop (src/indecator.py) ----
    heap,        \* the candle dicts allocated so far; a reference is an index, 0 is None
    current,     \* CandleBuilder.current: a reference
    prev_volume, \* CandleBuilder.prev_volume: <<>> is None, <<v>> holds v
    tick,        \* the tick of the last update call
    seen,        \* history of the builder on its own: the first tick's cumulative volume, and
                 \* whether the ticks came in timestamp order and with volumes that never fell
    ret,         \* what the last CandleBuilder.update call returned: a reference
    emitted,     \* history: every finished candle returned, [ref, snap] in order
    state,       \* IndicatorEngine.state
    fed,         \* history: every candle passed to IndicatorEngine.update, [ref, snap]
    result,      \* what the last IndicatorEngine.update call returned or raised
    ncalls,      \* the number of CandleBuilder.update calls made
    lpc,         \* "run", or "crashed" once an exception has left the loop
    \* ---- batch analysis, after the volume/value signal ----
    variant,     \* the module whose calculate_intraday_indicators runs
    df_5m,       \* the five-minute candles, one record per candle
    \* ---- the batch RSI computations ----
    closesIn,    \* the candle closes handed to each of them
    rsiOut,      \* what each of them produced, by module name
    \* ---- timestamp unit inference ----
    tsIn,        \* the exchange_timestamp column as it was read
    tsOut,       \* the unit chosen and the converted column, or the error dict
    \* ---- IndicatorState bootstrap ----
    hist,        \* hist_df: the candle history handed to IndicatorState
    boot,        \* what the constructor produced or raised
    \* ---- tick store (src/db_writer.py) and message handler (src/ws_client.py) ----
    market_ticks,\* the rows of table market_ticks, in insertion order
    durable,     \* the number of rows covered by the last commit
    lock,        \* db_writer._lock: the thread holding it, 0 when free
    tpc,         \* each thread's place inside insert_market_tick
    targ,        \* each thread's argument `data`
    executed,    \* history: every tick whose INSERT ran, in order
    handled,     \* history: every message on_message was called with, and its outcome
    \* ---- market structure (src/calculate_indicators.py, src/live_trend_analyzer.py) ----
    msIn,        \* the five-minute candles handed to the structure computations
    msOut,       \* what each of them produced, by module name
    \* ---- two securities, each with its own CandleBuilder and IndicatorEngine (src/indecator.py) ----
    pheap,       \* the candle dicts allocated so far by either builder
    builders,    \* each security's CandleBuilder: [current, prev_volume]
    engines,     \* each security's IndicatorEngine.state
    born,        \* history: the state each engine was built with
    outs,        \* history: what each engine's update calls returned or raised, in order
    calls,       \* history: every turn of a loop, [s, tick], in the order they ran
    \* ---- ws_client.py: the reconnecting client ----
    reconnect_count,\* the module's reconnect counter
    conn,        \* the connection: idle, connecting, open or stopped
    slept,       \* the delays on_close has slept, oldest first
    streak,      \* closes since the last successful open
    opens        \* successful opens so far

decVars == <<frameIn, buf, dpc, dres>>
batVars == <<cumIn, df, bpc, bres>>

bldVars == <<heap, current, prev_volume, tick, seen, ret, emitted, ncalls>>
engVars == <<state, fed, result, lpc>>
liveVars == <<bldVars, engVars>>
anaVars == <<variant, df_5m>>
rsiVars == <<closesIn, rsiOut>>
tsVars == <<tsIn, tsOut>>
cvVars == <<hist, boot>>
dbVars == <<market_ticks, durable, lock, tpc, targ, executed>>
strVars == <<handled>>
msVars == <<msIn, msOut>>
pairVars == <<pheap, builders, engines, born, outs, calls>>
wsVars == <<reconnect_count, conn, slept, streak, opens>>

vars == <<decVars, batVars, liveVars, anaVars, rsiVars, tsVars, cvVars, dbVars, strVars, msVars, pairVars, wsVars>>
notDec == <<batVars, liveVars, anaVars, rsiVars, tsVars, cvVars, dbVars, strVars, msVars, pairVars, wsVars>>
\* the batch analysis owns batVars and anaVars
notBat == <<decVars, liveVars, rsiVars, tsVars, cvVars, dbVars, strVars, msVars, pairVars, wsVars>>
notLive == <<decVars, batVars, anaVars, rsiVars, tsVars, cvVars, dbVars, strVars, msVars, pairVars, wsVars>>
notRsi == <<decVars, batVars, liveVars, anaVars, tsVars, cvVars, dbVars, strVars, msVars, pairVars, wsVars>>
notTs == <<decVars, batVars, liveVars, anaVars, rsiVars, cvVars, dbVars, strVars, msVars, pairVars, wsVars>>
notCv == <<decVars, batVars, liveVars, anaVars, rsiVars, tsVars, dbVars, strVars, msVars, pairVars, wsVars>>
\* the message handler writes the tick store
notDb == <<decVars, batVars, liveVars, anaVars, rsiVars, tsVars, cvVars, msVars, pairVars, wsVars>>
notMs == <<decVars, batVars, liveVars, anaVars, rsiVars, tsVars, cvVars, dbVars, strVars, pairVars, wsVars>>
notPair == <<decVars, batVars, liveVars, anaVars, rsiVars, tsVars, cvVars, dbVars, strVars, msVars, wsVars>>
notWs == <<decVars, batVars, liveVars, anaVars, rsiVars, tsVars, cvVars, dbVars, strVars, msVars, pairVars>>

None == "None"

(***************************************************************************)
(* Bytes and the little-endian codec of struct (formats <b <h <i <q).      *)
(***************************************************************************)
RECURSIVE EncLE(_, _)
\* struct.pack("<q", v) and friends: w bytes, least significant first,
\* two's complement (used only to build input frames)
EncLE(v, w) == IF w = 0 THEN <<>> ELSE <<v % 256>> \o EncLE(v \div 256, w - 1)

RECURSIVE Zeros(_)
Zeros(n) == IF n <= 0 THEN <<>> ELSE <<0>> \o Zeros(n - 1)

RECURSIVE HornerLE(_, _, _, _)
\* the unsigned value of the w bytes d[off+1 .. off+w], least significant
\* first; inv = TRUE reads the one's complement of every byte
HornerLE(d, off, w, inv) ==
    IF w = 0 THEN 0
    ELSE (IF inv THEN 255 - d[off + 1] ELSE d[off + 1])
         + 256 * HornerLE(d, off + 1, w - 1, inv)

\* struct.unpack_from needs calcsize(fmt) bytes from the offset on
CanUnpack(d, off, w) == off + w <= Len(d)

\* the signed little-endian integer of w bytes at offset off
UnpackInt(d, off, w) ==
    IF d[off + w] >= 128 THEN 0 - HornerLE(d, off, w, TRUE) - 1
    ELSE HornerLE(d, off, w, FALSE)

\* "<d": any 8 bytes are a double; its bits are kept as read
UnpackDouble(d, off) == <<"f64", SubSeq(d, off + 1, off + 8)>>

\* data[offset:offset + length]: a slice never fails, it is cut at the end
Slice(d, off, n) ==
    SubSeq(d, off + 1, IF off + n <= Len(d) THEN off + n ELSE Len(d))

RECURSIVE UpToNul(_)
\* raw.split(b"\x00", 1)[0]
UpToNul(s) ==
    IF s = <<>> \/ Head(s) = 0 THEN <<>> ELSE <<Head(s)>> \o UpToNul(Tail(s))

\* .decode("utf-8"): the frames built here hold ASCII bytes or 0xFF, and
\* 0xFF is valid nowhere in UTF-8
Utf8Valid(s) == \A i \in 1..Len(s) : s[i] < 128

(***************************************************************************)
(* normalize_price.  value / divisor is kept exactly, as quotient and      *)
(* remainder: value = whole * den + frac, 0 <= frac < den.                 *)
(***************************************************************************)
CurrencyExchange == 13
CurrencyDivisor == 10000000
DefaultDivisor == 100

Quot(value, den) == [whole |-> value \div den, frac |-> value % den, den |-> den]

\* a normalizer that knows one divisor only
normalize_price_flat(value, exchange_type) == Quot(value, DefaultDivisor)

normalize_price(value, exchange_type) ==
    IF exchange_type = CurrencyExchange
    THEN Quot(value, CurrencyDivisor)
    ELSE Quot(value, DefaultDivisor)

(***************************************************************************)
(* BinaryReader driven over a list of fields <<name, kind, size>>.         *)
(* A reader state is [ok, err, off, out]: out is the dict built so far.    *)
(***************************************************************************)
ReadField(d, st, f) ==
    LET name == f[1]
        kind == f[2]
        w    == f[3]
    IN  CASE kind = "skip" -> [st EXCEPT !.off = @ + w]
          [] kind = "string" ->
                LET s == UpToNul(Slice(d, st.off, w))
                IN  IF Utf8Valid(s)
                    THEN [st EXCEPT !.off = @ + w, !.out = @ @@ (name :> s)]
                    ELSE [st EXCEPT !.ok = FALSE, !.err = "UnicodeDecodeError"]
          [] OTHER ->
                IF ~CanUnpack(d, st.off, w)
                THEN [st EXCEPT !.ok = FALSE, !.err = "struct.error"]
                ELSE LET v == CASE kind = "double" -> UnpackDouble(d, st.off)
                                [] kind = "price" ->
                                      normalize_price(UnpackInt(d, st.off, w),
                                                      st.out["exchange_type"])
                                [] OTHER -> UnpackInt(d, st.off, w)
                     IN  [st EXCEPT !.off = @ + w, !.out = @ @@ (name :> v)]

RECURSIVE ReadFields(_, _, _)
ReadFields(d, st, fields) ==
    IF fields = <<>> \/ ~st.ok THEN st
    ELSE ReadFields(d, ReadField(d, st, Head(fields)), Tail(fields))

BestFiveEntries == 10

RECURSIVE parse_best_five(_, _, _, _)
\* the reader state after k more depth entries, with the entries appended to
\* st.out["best_five"]
parse_best_five(d, st, exchange_type, k) ==
    IF k = 0 \/ ~st.ok THEN st
    ELSE LET e  == ReadFields(d, [st EXCEPT !.out = ("exchange_type" :> exchange_type)],
                       << <<"side_flag", "int", 2>>, <<"quantity", "int", 8>>,
                          <<"price", "price", 8>>, <<"orders", "int", 2>> >>)
             entry == [side     |-> IF e.out["side_flag"] = 1 THEN "buy" ELSE "sell",
                       quantity |-> e.out["quantity"],
                       price    |-> e.out["price"],
                       orders   |-> e.out["orders"]]
         IN  IF ~e.ok THEN [st EXCEPT !.ok = FALSE, !.err = e.err]
             ELSE parse_best_five(d,
                     [st EXCEPT !.off = e.off,
                                !.out = [@ EXCEPT !["best_five"] = Append(@, entry)]],
                     exchange_type, k - 1)

HeaderFields ==
    << <<"subscription_mode", "int", 1>>, <<"exchange_type", "int", 1>>,
       <<"token", "string", 25>>, <<"sequence_number", "int", 8>>,
       <<"exchange_timestamp", "int", 8>>, <<"ltp", "price", 4>>,
       <<"padding", "skip", 4>> >>

QuoteFields ==
    << <<"last_traded_qty", "int", 8>>, <<"avg_traded_price", "price", 8>>,
       <<"volume", "int", 8>>, <<"total_buy_qty", "double", 8>>,
       <<"total_sell_qty", "double", 8>>, <<"open", "price", 8>>,
       <<"high", "price", 8>>, <<"low", "price", 8>>, <<"close", "price", 8>> >>

SnapHeadFields ==
    << <<"last_traded_time", "int", 8>>, <<"open_interest", "int", 8>>,
       <<"oi_change_percent", "double", 8>> >>

SnapTailFields ==
    << <<"upper_circuit", "price", 8>>, <<"lower_circuit", "price", 8>>,
       <<"week_52_high", "price", 8>>, <<"week_52_low", "price", 8>> >>

EmptyDict == [k \in {} |-> 0]

Raised(st) == [status |-> "error", err |-> st.err]
Returned(st) == [status |-> "ok", rec |-> st.out]

\* what follows the QUOTE block in parse_market_data
ParseSnap(d, q) ==
    LET s1 == ReadFields(d, q, SnapHeadFields)
        s2 == parse_best_five(d, [s1 EXCEPT !.out = @ @@ ("best_five" :> <<>>)],
                              s1.out["exchange_type"], BestFiveEntries)
        s3 == ReadFields(d, s2, SnapTailFields)
    IN  IF ~s1.ok THEN Raised(s1)
        ELSE IF ~s2.ok THEN Raised(s2)
        ELSE IF ~s3.ok THEN Raised(s3)
        ELSE Returned(s3)

parse_market_data(d) ==
    LET h == ReadFields(d, [ok |-> TRUE, err |-> None, off |-> 0, out |-> EmptyDict],
                        HeaderFields)
        q == ReadFields(d, h, QuoteFields)
    IN  IF ~h.ok THEN Raised(h)
        ELSE IF h.out["subscription_mode"] = 1 THEN Returned(h)
        ELSE IF ~q.ok THEN Raised(q)
        ELSE IF q.out["subscription_mode"] = 2 THEN Returned(q)
        ELSE ParseSnap(d, q)

(***************************************************************************)
(* Input frames.  A frame is built field by field from a few parameters    *)
(* and cut (or zero-extended) to every length up to MaxFrameLen, so that   *)
(* every truncation point of every mode is tried.                          *)
(***************************************************************************)
MaxFrameLen == 380

ModeBytes == {0, 1, 2, 3, 4, 255}
ExchBytes == {1, 13}
Tokens    == { <<49, 55, 57, 51, 57>>, <<78, 255>> }
RawBases  == {1000000000, 0 - 250}

\* the price fields in wire order; the i-th one carries raw value base + i - 1
PriceNames ==
    <<"ltp", "avg_traded_price", "open", "high", "low", "close",
      "upper_circuit", "lower_circuit", "week_52_high", "week_52_low">>

RawOf(base, name) ==
    base + (CHOOSE i \in 1..Len(PriceNames) : PriceNames[i] = name) - 1

\* the raw price of the k-th depth entry (k = 1..10)
RawDepth(base, k) == base + Len(PriceNames) + k - 1

RECURSIVE DepthBytes(_, _)
DepthBytes(base, k) ==
    IF k > BestFiveEntries THEN <<>>
    ELSE EncLE(k % 2, 2) \o EncLE(10 * k, 8) \o EncLE(RawDepth(base, k), 8)
         \o EncLE(k, 2) \o DepthBytes(base, k + 1)

FullFrame(p) ==
    <<p.mode, p.exch>> \o p.tok \o Zeros(25 - Len(p.tok))
    \o EncLE(7, 8) \o EncLE(1700, 8)
    \o EncLE(RawOf(p.base, "ltp"), 4) \o Zeros(4)
    \o EncLE(5, 8) \o EncLE(RawOf(p.base, "avg_traded_price"), 8) \o EncLE(100, 8)
    \o <<0, 0, 0, 0, 0, 0, 240, 63>> \o <<0, 0, 0, 0, 0, 0, 0, 64>>
    \o EncLE(RawOf(p.base, "open"), 8) \o EncLE(RawOf(p.base, "high"), 8)
    \o EncLE(RawOf(p.base, "low"), 8) \o EncLE(RawOf(p.base, "close"), 8)
    \o EncLE(1600, 8) \o EncLE(3, 8) \o <<0, 0, 0, 0, 0, 0, 224, 63>>
    \o DepthBytes(p.base, 1)
    \o EncLE(RawOf(p.base, "upper_circuit"), 8) \o EncLE(RawOf(p.base, "lower_circuit"), 8)
    \o EncLE(RawOf(p.base, "week_52_high"), 8) \o EncLE(RawOf(p.base, "week_52_low"), 8)

FrameOf(p) ==
    LET full == FullFrame(p)
    IN  SubSeq(full \o Zeros(p.len - Len(full)), 1, p.len)

FrameParams ==
    [mode : ModeBytes, exch : ExchBytes, tok : Tokens, base : RawBases,
     len : 0..MaxFrameLen]

DecIdle ==
    /\ frameIn = None
    /\ buf = <<>>
    /\ dpc = "idle"
    /\ dres = [status |-> "none"]

DecStart ==
    /\ frameIn \in FrameParams
    /\ buf = FrameOf(frameIn)
    /\ dpc = "ready"
    /\ dres = [status |-> "none"]

\* one call of parse_market_data(binary_data)
Decode ==
    /\ dpc = "ready"
    /\ dres' = parse_market_data(buf)
    /\ dpc' = "done"
    /\ UNCHANGED <<frameIn, buf>>
    /\ UNCHANGED notDec

(***************************************************************************)
(* Exact rationals <<numerator, denominator>>, denominator > 0, in lowest  *)
(* terms: the values the code holds in floats.                             *)
(***************************************************************************)
Abs(x) == IF x < 0 THEN 0 - x ELSE x
Max(a, b) == IF a >= b THEN a ELSE b
Min(a, b) == IF a <= b THEN a ELSE b

RECURSIVE GCD(_, _)
GCD(a, b) == IF b = 0 THEN a ELSE GCD(b, a % b)

RNorm(n, d) ==
    LET g == GCD(Abs(n), Abs(d))
        sg == IF d < 0 THEN 0 - 1 ELSE 1
    IN  <<(sg * n) \div g, (sg * d) \div g>>

R(n) == <<n, 1>>
RAdd(x, y) == RNorm(x[1] * y[2] + y[1] * x[2], x[2] * y[2])
RSub(x, y) == RNorm(x[1] * y[2] - y[1] * x[2], x[2] * y[2])
RMul(x, y) == RNorm(x[1] * y[1], x[2] * y[2])
RDiv(x, y) == RNorm(x[1] * y[2], x[2] * y[1])
RLt(x, y) == x[1] * y[2] < y[1] * x[2]
RMax(x, y) == IF RLt(x, y) THEN y ELSE x
RAbs(x) == <<Abs(x[1]), x[2]>>

RECURSIVE SumSeq(_)
SumSeq(s) == IF s = <<>> THEN 0 ELSE Head(s) + SumSeq(Tail(s))

(***************************************************************************)
(* Batch analysis: calculate_intraday_indicators, from the row count check *)
(* after the numeric cleanup to the volume/value signal.  The same lines   *)
(* stand in live_trend_analyzer.py and in calculate_indecator.py.          *)
(***************************************************************************)
MinRows == 10
VolRollWindow == 20

\* a cell that may be NaN: <<>> is NaN, <<x>> holds x
NaN == <<>>

\* Series.diff(): the first element has no predecessor
Diff(col) == [i \in 1..Len(col) |-> IF i = 1 THEN NaN ELSE <<col[i] - col[i - 1]>>]
\* Series.fillna(v)
FillNa(col, v) == [i \in 1..Len(col) |-> IF col[i] = NaN THEN v ELSE col[i][1]]
\* Series.clip(lower=lo)
\* a clip that lets negative differences through
ClipLower_none(col, lo) == col
ClipLower(col, lo) == [i \in 1..Len(col) |-> Max(col[i], lo)]

\* df['volume'].diff().fillna(0).clip(lower=0)
FixCumulativeVolume(col) == ClipLower(FillNa(Diff(col), 0), 0)

Column(d, name) == [i \in 1..Len(d) |-> d[i][name]]

\* col.rolling(w).mean().dropna(): one mean per full window
RollingMean(col, w) ==
    [k \in 1..Max(Len(col) - w + 1, 0) |->
        RNorm(SumSeq(SubSeq(col, k, k + w - 1)), w)]

\* col.mean()
Mean(col) == RNorm(SumSeq(col), Len(col))

\* roll.iloc[-1] if not roll.empty else col.mean()
TrailingAverage(col) ==
    LET roll == RollingMean(col, VolRollWindow)
    IN  IF roll # <<>> THEN roll[Len(roll)] ELSE Mean(col)

VolumeValueSignal(latest, prev_close, avg_volume, avg_value) ==
    IF RLt(avg_volume, R(latest.volume)) /\ RLt(avg_value, R(latest.trade_value))
    THEN "HIGH_VOLUME_HIGH_VALUE"
    ELSE IF RLt(avg_volume, R(latest.volume)) /\ RLt(R(latest.trade_value), avg_value)
    THEN "HIGH_VOLUME_LOW_VALUE"
    ELSE IF latest.ltp > prev_close /\ RLt(R(latest.volume), avg_volume)
    THEN "PRICE_UP_LOW_VOLUME"
    ELSE "NEUTRAL"

\* ---- input tables ----
MaxRows == 21
VarRows == 4

FirstCumulative == 100
VolumeSteps == {50, 0 - 10, 60}
LatestLtps == {9, 10, 11}
LatestQtys == {1, 2, 3}

RECURSIVE Cumulate(_, _)
\* the running totals that start at c and then move by the given steps
Cumulate(c, steps) ==
    IF steps = <<>> THEN <<c>> ELSE <<c>> \o Cumulate(c + Head(steps), Tail(steps))

\* n rows: the first VarRows steps are free, the later ones all equal `rest`
CumulativeColumn(n, free, rest) ==
    Cumulate(FirstCumulative,
             [i \in 1..(n - 1) |-> IF i <= Len(free) THEN free[i] ELSE rest])

TableOf(col, ltp, qty) ==
    [i \in 1..Len(col) |->
        [volume          |-> col[i],
         ltp             |-> IF i = Len(col) THEN ltp ELSE 10,
         last_traded_qty |-> IF i = Len(col) THEN qty ELSE 2,
         close           |-> 10]]

BatIdle ==
    /\ cumIn = <<>>
    /\ df = <<>>
    /\ bpc = "idle"
    /\ bres = EmptyDict

BatStart ==
    /\ \E n \in (MinRows - 1)..MaxRows, rest \in VolumeSteps,
          free \in [1..VarRows -> VolumeSteps] :
          cumIn = CumulativeColumn(n, free, rest)
    /\ \E ltp \in LatestLtps, qty \in LatestQtys : df = TableOf(cumIn, ltp, qty)
    /\ bpc = "cleaned"
    /\ bres = EmptyDict

\* if len(df) < 10: return {"error": ...}
CheckRows ==
    /\ bpc = "cleaned"
    /\ IF Len(df) < MinRows
       THEN /\ bres' = ("error" :> "Not enough valid rows after cleanup")
            /\ bpc' = "returned"
       ELSE /\ bres' = bres
            /\ bpc' = "rows_ok"
    /\ UNCHANGED <<cumIn, df>>
    /\ UNCHANGED anaVars
    /\ UNCHANGED notBat

\* df['volume'] = df['volume'].diff().fillna(0).clip(lower=0)
FixVolume ==
    /\ bpc = "rows_ok"
    /\ LET v == FixCumulativeVolume(Column(df, "volume"))
       IN  df' = [i \in 1..Len(df) |-> [df[i] EXCEPT !.volume = v[i]]]
    /\ bpc' = "volume_fixed"
    /\ UNCHANGED <<cumIn, bres>>
    /\ UNCHANGED anaVars
    /\ UNCHANGED notBat

\* trade_value, the trailing averages and the volume/value signal
VolumeValue ==
    /\ bpc = "volume_fixed"
    /\ LET d2 == [i \in 1..Len(df) |->
                    df[i] @@ ("trade_value" :> df[i].last_traded_qty * df[i].ltp)]
           latest == d2[Len(d2)]
           prev_close == IF Len(d2) > 1 THEN d2[Len(d2) - 1].close ELSE latest.ltp
           avg_volume == TrailingAverage(Column(d2, "volume"))
           avg_value == TrailingAverage(Column(d2, "trade_value"))
       IN  /\ df' = d2
           /\ bres' = bres @@ ("avg_volume" :> avg_volume) @@ ("avg_value" :> avg_value)
                      @@ ("volume_value_signal" :>
                            VolumeValueSignal(latest, prev_close, avg_volume, avg_value))
    /\ bpc' = "volume_value"
    /\ UNCHANGED cumIn
    /\ UNCHANGED anaVars
    /\ UNCHANGED notBat

(***************************************************************************)
(* CandleBuilder (tick -> 1 minute candle).  Candles are dicts: update     *)
(* hands out the very object it was filling, so candles live in a heap and *)
(* are named by reference.                                                 *)
(***************************************************************************)
CANDLE_INTERVAL == 60

NoRef == 0

BucketOf(t) ==
    LET ts == t.timestamp \div 1000
    IN  ts - (ts % CANDLE_INTERVAL)

NewCandle(bucket, price) ==
    [timestamp |-> bucket, open |-> price, high |-> price, low |-> price,
     close |-> price, volume |-> 0]

\* an in-bucket branch that keeps the last price only
Absorb_last(c, price, vol, pv) ==
    [c EXCEPT !.high = price, !.low = price, !.close = price,
              !.volume = IF pv # <<>> THEN @ + Max(0, vol - pv[1]) ELSE @]

\* the in-bucket branch of update: the current dict is changed in place
Absorb(c, price, vol, pv) ==
    [c EXCEPT !.high = Max(c.high, price),
              !.low = Min(c.low, price),
              !.close = price,
              !.volume = IF pv # <<>> THEN @ + Max(0, vol - pv[1]) ELSE @]

\* a builder that refills the dict it has just returned
CandleBuilder_update_reuse(b, t) ==
    IF b.current = NoRef
    THEN [b |-> [heap |-> Append(b.heap, NewCandle(BucketOf(t), t.ltp)),
                 current |-> Len(b.heap) + 1,
                 prev_volume |-> <<t.volume>>],
          ret |-> NoRef]
    ELSE IF BucketOf(t) # b.heap[b.current].timestamp
    THEN [b |-> [heap |-> [b.heap EXCEPT ![b.current] = NewCandle(BucketOf(t), t.ltp)],
                 current |-> b.current,
                 prev_volume |-> <<t.volume>>],
          ret |-> b.current]
    ELSE [b |-> [heap |-> [b.heap EXCEPT ![b.current] =
                              Absorb(@, t.ltp, t.volume, b.prev_volume)],
                 current |-> b.current,
                 prev_volume |-> <<t.volume>>],
          ret |-> NoRef]

\* a builder that never closes a bucket
CandleBuilder_update_merge(b, t) ==
    IF b.current = NoRef
    THEN [b |-> [heap |-> Append(b.heap, NewCandle(BucketOf(t), t.ltp)),
                 current |-> Len(b.heap) + 1,
                 prev_volume |-> <<t.volume>>],
          ret |-> NoRef]
    ELSE [b |-> [heap |-> [b.heap EXCEPT ![b.current] =
                              Absorb(@, t.ltp, t.volume, b.prev_volume)],
                 current |-> b.current,
                 prev_volume |-> <<t.volume>>],
          ret |-> NoRef]

\* CandleBuilder.update(tick) on builder b = [heap, current, prev_volume]:
\* the builder afterwards and the reference returned
CandleBuilder_update(b, t) ==
    IF b.current = NoRef \/ BucketOf(t) # b.heap[b.current].timestamp
    THEN [b |-> [heap |-> Append(b.heap, NewCandle(BucketOf(t), t.ltp)),
                 current |-> Len(b.heap) + 1,
                 prev_volume |-> <<t.volume>>],
          ret |-> b.current]
    ELSE [b |-> [heap |-> [b.heap EXCEPT ![b.current] =
                              Absorb(@, t.ltp, t.volume, b.prev_volume)],
                 current |-> b.current,
                 prev_volume |-> <<t.volume>>],
          ret |-> NoRef]

\* ---- ticks ----
MaxTicks == 4

TickTimes == {59999, 60000, 61500, 120000}
TickPrices == {1, 2, 3}
TickVolumes == {100, 150}
Ticks == [timestamp : TickTimes, ltp : TickPrices, volume : TickVolumes]

NoTick == [timestamp |-> 0, ltp |-> 0, volume |-> 0]

\* CandleBuilder.__init__
BldStart ==
    /\ heap = <<>>
    /\ current = NoRef
    /\ prev_volume = <<>>
    /\ tick = NoTick
    /\ seen = [first |-> <<>>, time_ordered |-> TRUE, volume_ordered |-> TRUE]
    /\ ret = NoRef
    /\ emitted = <<>>
    /\ ncalls = 0

\* the builder's part of one update call with tick t
BuilderCall(t) ==
    LET u == CandleBuilder_update([heap |-> heap, current |-> current,
                                   prev_volume |-> prev_volume], t)
    IN  /\ heap' = u.b.heap
        /\ current' = u.b.current
        /\ prev_volume' = u.b.prev_volume
        /\ tick' = t
        /\ ret' = u.ret
        /\ emitted' = IF u.ret # NoRef
                      THEN Append(emitted, [ref |-> u.ret, snap |-> u.b.heap[u.ret]])
                      ELSE emitted
        /\ ncalls' = ncalls + 1

\* the summary of the ticks once t has been passed in
Seen(t) ==
    [first |-> IF ncalls = 0 THEN <<t.volume>> ELSE seen.first,
     time_ordered |->
         seen.time_ordered /\ (ncalls = 0 \/ tick.timestamp <= t.timestamp),
     volume_ordered |->
         seen.volume_ordered /\ (ncalls = 0 \/ tick.volume <= t.volume)]

\* builder.update(tick), the builder on its own
BuilderUpdate ==
    /\ ncalls < MaxTicks
    /\ \E t \in Ticks : BuilderCall(t) /\ seen' = Seen(t)
    /\ UNCHANGED engVars
    /\ UNCHANGED notLive

(***************************************************************************)
(* IndicatorEngine.update.  The state's numbers are exact rationals.  A    *)
(* state bootstrapped through pandas holds numpy scalars, for which x / 0  *)
(* is inf, -inf or nan (written <<1, 0>>, <<-1, 0>>, <<0, 0>>) where plain *)
(* Python numbers raise ZeroDivisionError; state.np_acc and state.np_prev  *)
(* tell which kind the VWAP accumulators and prev_close are.               *)
(* state.signal, the MACD signal line, is kept as the unevaluated term     *)
(* <<"ema", previous signal, macd, EMA_SIGNAL>>: nothing reads its value.  *)
(***************************************************************************)
EMA_FAST == 12
EMA_SLOW == 26
EMA_SIGNAL == 9
RSI_PERIOD == 14
ATR_PERIOD == 14
VOL_AVG_PERIOD == 20

\* ema(prev_ema, price, period)
ema(prev_ema, price, period) ==
    LET alpha == RNorm(2, period + 1)
    IN  RAdd(RMul(price, alpha), RMul(prev_ema, RSub(R(1), alpha)))

\* (avg * (period - 1) + x) / period
Wilder(avg, x, period) == RDiv(RAdd(RMul(avg, R(period - 1)), x), R(period))

\* numpy's x / 0
NumpyDivZero(x) == <<IF x[1] > 0 THEN 1 ELSE IF x[1] < 0 THEN 0 - 1 ELSE 0, 0>>

\* x / y where x or y is a numpy scalar (np = TRUE) or both are Python numbers
Divide(x, y, np) ==
    IF y[1] # 0 THEN [raised |-> FALSE, val |-> RDiv(x, y)]
    ELSE IF np THEN [raised |-> FALSE, val |-> NumpyDivZero(x)]
    ELSE [raised |-> TRUE, val |-> <<0, 0>>]

\* rs = avg_gain / avg_loss if avg_loss else 0;  rsi = 100 - (100 / (1 + rs))
RsiOf(avg_gain, avg_loss) ==
    LET rs == IF avg_loss[1] # 0 THEN RDiv(avg_gain, avg_loss) ELSE R(0)
    IN  RSub(R(100), RDiv(R(100), RAdd(R(1), rs)))

\* deque(maxlen=VOL_AVG_PERIOD).append(v)
DequeAppend(w, v) ==
    IF Len(w) >= VOL_AVG_PERIOD THEN Append(Tail(w), v) ELSE Append(w, v)

\* IndicatorEngine.update(candle) on state st: the state afterwards and
\* either the snapshot returned or the exception raised.  The statements run
\* in order, so an exception leaves the assignments before it in place.
IndicatorEngine_update(st, candle) ==
    LET close == R(candle.close)
        high  == R(candle.high)
        low   == R(candle.low)
        vol   == R(candle.volume)
        ema_fast == ema(st.ema_fast, close, EMA_FAST)
        ema_slow == ema(st.ema_slow, close, EMA_SLOW)
        macd     == RSub(ema_fast, ema_slow)
        signal   == <<"ema", st.signal, macd, EMA_SIGNAL>>
        change   == RSub(close, st.prev_close)
        gain     == RMax(change, R(0))
        loss     == RMax(RSub(R(0), change), R(0))
        avg_gain == Wilder(st.avg_gain, gain, RSI_PERIOD)
        avg_loss == Wilder(st.avg_loss, loss, RSI_PERIOD)
        rsi      == RsiOf(avg_gain, avg_loss)
        tr       == RMax(RSub(high, low),
                         RMax(RAbs(RSub(high, st.prev_close)),
                              RAbs(RSub(low, st.prev_close))))
        atr      == Wilder(st.atr, tr, ATR_PERIOD)
        vwap_pv  == RAdd(st.vwap_pv, RMul(close, vol))
        vwap_vol == RAdd(st.vwap_vol, vol)
        vwap     == Divide(vwap_pv, vwap_vol, st.np_acc)
        window   == DequeAppend(st.vol_window, candle.volume)
        \* vol > 1.5 * avg_vol, avg_vol = sum(window) / len(window)
        vol_spike == 2 * candle.volume * Len(window) > 3 * SumSeq(window)
        lag      == Divide(RSub(close, st.prev_close), st.prev_close, st.np_prev)
        s1 == [st EXCEPT !.ema_fast = ema_fast, !.ema_slow = ema_slow,
                         !.signal = signal, !.avg_gain = avg_gain,
                         !.avg_loss = avg_loss, !.atr = atr,
                         !.vwap_pv = vwap_pv, !.vwap_vol = vwap_vol]
        s2 == [s1 EXCEPT !.vol_window = window]
        s3 == [s2 EXCEPT !.prev_close = close, !.np_prev = FALSE]
    IN  IF vwap.raised
        THEN [st |-> s1, res |-> [status |-> "raised", err |-> "ZeroDivisionError"]]
        ELSE IF lag.raised
        THEN [st |-> s2, res |-> [status |-> "raised", err |-> "ZeroDivisionError"]]
        ELSE [st |-> s3,
              res |-> [status |-> "returned",
                       snapshot |->
                          [close |-> close, ema_fast |-> ema_fast,
                           ema_slow |-> ema_slow, macd |-> macd, signal |-> signal,
                           rsi |-> rsi, atr |-> atr, vwap |-> vwap.val,
                           volume_spike |-> vol_spike, lagged_return |-> lag.val]]]

\* ---- the engine states the loop starts from, and the loop's ticks ----
MaxLoopTicks == 3

StartCloses == {0, 2}
StartGains  == { <<0, 1>>, <<1, 1>> }
StartLosses == { <<0, 1>>, <<1, 2>> }
StartVolumes == {0, 10}

LoopTimes == {59999, 61500, 120000}
LoopPrices == {1, 3}
LoopVolumes == {100, 150}
LoopTicks == [timestamp : LoopTimes, ltp : LoopPrices, volume : LoopVolumes]

\* the history has n candles of close c and volumes v, 2v, ..., nv
StartWindows == {1, VOL_AVG_PERIOD}
StartVolumeColumn(v, n) == [i \in 1..n |-> v * i]

StartState(c, g, l, v, np, n) ==
    [ema_fast |-> R(c), ema_slow |-> R(c), signal |-> R(0),
     avg_gain |-> g, avg_loss |-> l, atr |-> R(1),
     vwap_pv |-> R(c * SumSeq(StartVolumeColumn(v, n))),
     vwap_vol |-> R(SumSeq(StartVolumeColumn(v, n))),
     vol_window |-> StartVolumeColumn(v, n),
     prev_close |-> R(c), np_acc |-> np, np_prev |-> np]

\* engine = IndicatorEngine(hist_df)
EngStart ==
    /\ \E c \in StartCloses, g \in StartGains, l \in StartLosses,
          v \in StartVolumes, np \in BOOLEAN, n \in StartWindows :
          state = StartState(c, g, l, v, np, n)
    /\ fed = <<>>
    /\ result = [status |-> "none"]
    /\ lpc = "run"

\* one turn of the loop:
\*     candle = builder.update(tick)
\*     if candle: indicators = engine.update(candle)
LiveStep ==
    /\ lpc = "run"
    /\ ncalls < MaxLoopTicks
    /\ \E t \in LoopTicks :
          /\ BuilderCall(t)
          /\ IF ret' # NoRef
             THEN LET u == IndicatorEngine_update(state, heap'[ret'])
                  IN  /\ state' = u.st
                      /\ result' = u.res
                      /\ fed' = Append(fed, [ref |-> ret', snap |-> heap'[ret']])
                      /\ lpc' = IF u.res.status = "raised" THEN "crashed" ELSE "run"
             ELSE UNCHANGED engVars
    /\ UNCHANGED seen
    /\ UNCHANGED notLive

(***************************************************************************)
(* The batch RSI, as each of the three modules computes it from the        *)
(* closes of the five-minute candles.  A float that may be NaN or infinite *)
(* is <<n, 0>>: <<0, 0>> is NaN, <<1, 0>> is +inf, <<-1, 0>> is -inf.      *)
(***************************************************************************)
RsiWindow == 14
MinCandlesRsi == 15

FloatNaN == <<0, 0>>
IsNaN(x) == x = FloatNaN

REq(x, y) == x[2] # 0 /\ y[2] # 0 /\ x[1] * y[2] = y[1] * x[2]
RLe(x, y) == x[2] # 0 /\ y[2] # 0 /\ x[1] * y[2] <= y[1] * x[2]

\* Series.clip(lower=0) and -Series.clip(upper=0) on cells that may be NaN
ClipGain(delta) == [i \in 1..Len(delta) |->
                      IF delta[i] = NaN THEN NaN ELSE <<Max(delta[i][1], 0)>>]
ClipLoss(delta) == [i \in 1..Len(delta) |->
                      IF delta[i] = NaN THEN NaN ELSE <<0 - Min(delta[i][1], 0)>>]

\* delta.where(delta > 0, 0) and -delta.where(delta < 0, 0): NaN compares
\* false, so the first cell becomes 0
WhereGain(delta) == [i \in 1..Len(delta) |->
                       IF delta[i] # NaN /\ delta[i][1] > 0 THEN delta[i][1] ELSE 0]
WhereLoss(delta) == [i \in 1..Len(delta) |->
                       IF delta[i] # NaN /\ delta[i][1] < 0 THEN 0 - delta[i][1] ELSE 0]

\* col.rolling(w).mean().iloc[-1] on cells that may be NaN: NaN unless the
\* last w cells are all there
RollingLast(col, w) ==
    IF Len(col) < w \/ \E i \in (Len(col) - w + 1)..Len(col) : col[i] = NaN
    THEN FloatNaN
    ELSE RNorm(SumSeq([k \in 1..w |-> col[Len(col) - w + k][1]]), w)

\* 100 - (100 / (1 + rs)) in floats: rs may be infinite or NaN
RsiFromRs(rs) ==
    IF IsNaN(rs) THEN FloatNaN
    ELSE IF rs[2] = 0 THEN R(100)
    ELSE RSub(R(100), RDiv(R(100), RAdd(R(1), rs)))

\* pandas' avg_gain / avg_loss: a zero divisor gives inf or NaN
PandasDivide(x, y) ==
    IF IsNaN(x) \/ IsNaN(y) THEN FloatNaN
    ELSE IF y[1] = 0 THEN NumpyDivZero(x)
    ELSE RDiv(x, y)

\* the zero-loss case answered like the streaming engine does
RollingRsi_zero(avg_gain, avg_loss) == RsiOf(avg_gain, avg_loss)
\* if avg_loss == 0: rsi = 100.0  else: rs = ...; rsi = 100 - (100 / (1 + rs))
RollingRsi(avg_gain, avg_loss) ==
    IF ~IsNaN(avg_loss) /\ avg_loss[1] = 0 THEN R(100)
    ELSE RsiFromRs(PandasDivide(avg_gain, avg_loss))

\* 55 <= rsi <= 70 / rsi > 70 / else; every comparison with NaN is false
RsiSignal(rsi) ==
    IF RLe(R(55), rsi) /\ RLe(rsi, R(70)) THEN "RSI_BULLISH_ZONE"
    ELSE IF rsi[2] # 0 /\ RLt(R(70), rsi) THEN "RSI_OVERBOUGHT"
    ELSE "RSI_WEAK"

\* floor(x + 1/2) with ties to the even neighbour: what rint does
RoundHalfEven(x) ==
    LET f == x[1] \div x[2]
        r == x[1] % x[2]
    IN  IF 2 * r < x[2] THEN f
        ELSE IF 2 * r > x[2] THEN f + 1
        ELSE IF f % 2 = 0 THEN f ELSE f + 1

\* round(x, 2); NaN and the infinities stay what they are
Round2(x) == IF x[2] = 0 THEN x ELSE RNorm(RoundHalfEven(<<100 * x[1], x[2]>>), 100)

\* src/live_trend_analyzer.py: the RSI section.  rsi is <<>> for None.
LiveRsi(closes) ==
    IF Len(closes) >= MinCandlesRsi
    THEN LET delta == Diff(closes)
             avg_gain == RollingLast(ClipGain(delta), RsiWindow)
             avg_loss == RollingLast(ClipLoss(delta), RsiWindow)
             \* if avg_loss.iloc[-1] == 0 or pd.isna(avg_loss.iloc[-1]): rsi = 100.0
             rsi == IF IsNaN(avg_loss) THEN R(100)
                    ELSE RollingRsi(avg_gain, avg_loss)
         IN  IF ~IsNaN(avg_gain)
             THEN [rsi |-> <<Round2(rsi)>>, raw |-> <<rsi>>, rsi_signal |-> RsiSignal(rsi),
                   note |-> "RSI"]
             ELSE [rsi |-> <<>>, raw |-> <<>>, rsi_signal |-> "INSUFFICIENT_DATA",
                   note |-> "RSI (calculation failed)"]
    ELSE [rsi |-> <<>>, raw |-> <<>>, rsi_signal |-> "INSUFFICIENT_DATA",
          note |-> "RSI (need 75+ min)"]

\* src/calculate_indecator.py: the RSI section (reached with 15 candles or more)
IndecatorRsi(closes) ==
    LET delta == Diff(closes)
        avg_gain == RollingLast(ClipGain(delta), RsiWindow)
        avg_loss == RollingLast(ClipLoss(delta), RsiWindow)
        rsi == RollingRsi(avg_gain, avg_loss)
    IN  [rsi |-> <<Round2(rsi)>>, raw |-> <<rsi>>, rsi_signal |-> RsiSignal(rsi)]

\* src/calculate_indicators.py: TechnicalIndicators.calculate_rsi
calculate_rsi(closes, period) ==
    IF Len(closes) < period + 1 THEN [status |-> "None"]
    ELSE LET delta == Diff(closes)
             avg_gain == RollingLast([i \in 1..Len(delta) |-> <<WhereGain(delta)[i]>>], period)
             avg_loss == RollingLast([i \in 1..Len(delta) |-> <<WhereLoss(delta)[i]>>], period)
             latest_rsi == RsiFromRs(PandasDivide(avg_gain, avg_loss))
             good == RLe(R(55), latest_rsi) /\ RLe(latest_rsi, R(70))
         IN  [status |-> "dict",
              rsi |-> Round2(latest_rsi),
              condition |->
                  IF good THEN "BULLISH"
                  ELSE IF latest_rsi[2] # 0 /\ RLt(R(70), latest_rsi) THEN "OVERBOUGHT"
                  ELSE IF latest_rsi[2] # 0 /\ RLt(latest_rsi, R(30)) THEN "OVERSOLD"
                  ELSE IF RLe(R(50), latest_rsi) /\ RLt(latest_rsi, R(55)) THEN "NEUTRAL"
                  ELSE "BEARISH",
              is_good |-> good]

\* ---- input closes ----
MaxCloses == 16
FreeCloses == 3
FirstClose == 20
CloseSteps == {0 - 1, 0, 1, 2}

\* n closes: the last FreeCloses changes are free, the earlier ones all `rest`
ClosesOf(n, rest, free) ==
    Cumulate(FirstClose,
             [i \in 1..(n - 1) |->
                 IF i > n - 1 - Len(free) THEN free[i - (n - 1 - Len(free))] ELSE rest])

RsiIdle ==
    /\ closesIn = <<>>
    /\ rsiOut = EmptyDict

RsiStart ==
    /\ \E n \in RsiWindow..MaxCloses, rest \in CloseSteps,
          free \in [1..FreeCloses -> CloseSteps] :
          closesIn = ClosesOf(n, rest, free)
    /\ rsiOut = EmptyDict

\* the RSI section of live_trend_analyzer.calculate_intraday_indicators
RsiLive ==
    /\ closesIn # <<>>
    /\ "live_trend_analyzer" \notin DOMAIN rsiOut
    /\ rsiOut' = rsiOut @@ ("live_trend_analyzer" :> LiveRsi(closesIn))
    /\ UNCHANGED closesIn
    /\ UNCHANGED notRsi

\* calculate_indecator.calculate_intraday_indicators: the candle count
\* check and the RSI section
RsiIndecator ==
    /\ closesIn # <<>>
    /\ "calculate_indecator" \notin DOMAIN rsiOut
    /\ rsiOut' = rsiOut @@
           ("calculate_indecator" :>
              IF Len(closesIn) < MinCandlesRsi
              THEN [error |-> "Not enough 5m candles"]
              ELSE IndecatorRsi(closesIn))
    /\ UNCHANGED closesIn
    /\ UNCHANGED notRsi

\* TechnicalIndicators.calculate_rsi(df) with the default period
RsiTechnical ==
    /\ closesIn # <<>>
    /\ "calculate_indicators" \notin DOMAIN rsiOut
    /\ rsiOut' = rsiOut @@ ("calculate_indicators" :> calculate_rsi(closesIn, RsiWindow))
    /\ UNCHANGED closesIn
    /\ UNCHANGED notRsi

(***************************************************************************)
(* Batch analysis, continued: calculate_intraday_indicators from the VWAP  *)
(* to the returned dict, in its two variants.  live_trend_analyzer.py      *)
(* skips an indicator that lacks candles; calculate_indecator.py returns   *)
(* an error below MinCandles candles and computes everything above.        *)
(* A row's timestamp is in seconds; None is <<>>.                          *)
(***************************************************************************)
EmaShortSpan == 20
EmaLongSpan == 50
MinCandlesStructure == 2
MinCandlesEma == 50
MinCandles == 15
FiveMinutes == 300

RECURSIVE EwmFrom(_, _, _, _)
\* the recursion y[i] = alpha * x[i] + (1 - alpha) * y[i-1], one row at a time
\* (each y[i] is worked out before the next row is taken)
EwmFrom(col, span, i, e) ==
    IF i > Len(col) THEN e
    ELSE LET y == ema(e, R(col[i]), span)
         IN  IF y[2] > 0 THEN EwmFrom(col, span, i + 1, y) ELSE FloatNaN

\* col.ewm(span=span, adjust=False).mean().iloc[-1]
EwmLast(col, span) == EwmFrom(col, span, 2, R(col[1]))

RECURSIVE SortedSeq(_)
\* the members of a set of integers in increasing order
SortedSeq(S) ==
    IF S = {} THEN <<>>
    ELSE LET m == CHOOSE x \in S : \A y \in S : x <= y
         IN  <<m>> \o SortedSeq(S \ {m})

\* df.resample('5min', on='timestamp').agg({...}).dropna(): one candle per
\* five-minute bucket that holds a row (the empty buckets are all NaN and
\* dropped)
Resample(d) ==
    LET buckets == SortedSeq({d[i].timestamp \div FiveMinutes : i \in 1..Len(d)})
        rowsOf(b) == {i \in 1..Len(d) : d[i].timestamp \div FiveMinutes = b}
        first(I) == CHOOSE i \in I : \A j \in I : i <= j
        last(I) == CHOOSE i \in I : \A j \in I : i >= j
    IN  [k \in 1..Len(buckets) |->
            LET I == rowsOf(buckets[k])
            IN  [timestamp |-> buckets[k] * FiveMinutes,
                 open   |-> d[first(I)].open,
                 high   |-> CHOOSE h \in {d[i].high : i \in I} :
                                \A i \in I : d[i].high <= h,
                 low    |-> CHOOSE l \in {d[i].low : i \in I} :
                                \A i \in I : d[i].low >= l,
                 close  |-> d[last(I)].close,
                 volume |-> SumSeq([j \in 1..Len(SortedSeq(I)) |->
                                       d[SortedSeq(I)[j]].volume])]]

\* "BULLISH_HH_HL" if curr['high'] > prev['high'] and curr['low'] > prev['low']
StructureOf(c5) ==
    LET prev == c5[Len(c5) - 1]
        curr == c5[Len(c5)]
    IN  IF curr.high > prev.high /\ curr.low > prev.low
        THEN "BULLISH_HH_HL" ELSE "NOT_BULLISH"

\* Python's truth value of a float that may be None
Truthy(x) == x # <<>> /\ ~(x[1][2] # 0 /\ x[1][1] = 0)

BoolInt(b) == IF b THEN 1 ELSE 0

\* the thresholds compared with > instead of >=
OverallOf_strict(bullish_score, max_possible_score) ==
    LET percentage == RMul(RNorm(bullish_score, max_possible_score), R(100))
        pair == <<bullish_score, max_possible_score>>
    IN  IF RLt(R(80), percentage)
        THEN [overall_signal |-> "STRONG_BULLISH",
              recommendation |-> <<"BUY - Strong signal">> \o pair]
        ELSE IF RLt(R(60), percentage)
        THEN [overall_signal |-> "BULLISH",
              recommendation |-> <<"BUY - Moderate signal">> \o pair]
        ELSE IF RLt(R(40), percentage)
        THEN [overall_signal |-> "NEUTRAL",
              recommendation |-> <<"WAIT - Mixed signals">> \o pair]
        ELSE [overall_signal |-> "BEARISH",
              recommendation |-> <<"AVOID - Weak signals">> \o pair]

\* the overall label and the fixed part of the recommendation text
OverallOf(bullish_score, max_possible_score) ==
    IF max_possible_score = 0
    THEN [overall_signal |-> "INSUFFICIENT_DATA",
          recommendation |-> <<"WAIT - Not enough data yet">>]
    ELSE LET percentage == RMul(RNorm(bullish_score, max_possible_score), R(100))
         IN  IF RLe(R(80), percentage)
             THEN [overall_signal |-> "STRONG_BULLISH",
                   recommendation |-> <<"BUY - Strong signal",
                                        bullish_score, max_possible_score>>]
             ELSE IF RLe(R(60), percentage)
             THEN [overall_signal |-> "BULLISH",
                   recommendation |-> <<"BUY - Moderate signal",
                                        bullish_score, max_possible_score>>]
             ELSE IF RLe(R(40), percentage)
             THEN [overall_signal |-> "NEUTRAL",
                   recommendation |-> <<"WAIT - Mixed signals",
                                        bullish_score, max_possible_score>>]
             ELSE [overall_signal |-> "BEARISH",
                   recommendation |-> <<"AVOID - Weak signals",
                                        bullish_score, max_possible_score>>]

\* ---- input tables ----
CandleCounts == {1, 2, 14, 15, 49, 50}
BaseCloses == {0, 460}
TailSteps == {0, 1, 556, 0 - 455, 0 - 300}
TickQtys == {0, 2}
TickLtps == {9, 11}
LastVolumeSteps == {10, 50}

\* the closes of n candles: flat at `base`, then two free changes
TailCloses(n, base, s1, s2) ==
    LET all == [k \in 1..(n + 2) |->
                   IF k <= n THEN base ELSE IF k = n + 1 THEN base + s1
                   ELSE base + s1 + s2]
    IN  SubSeq(all, 3, n + 2)

\* one row per candle, and as many rows before them in the first candle as
\* it takes to have MinRows rows
AnalysisTable(closes, qty, ltp, vstep) ==
    LET nC == Len(closes)
        pad == Max(MinRows - nC, 0)
        n == nC + pad
    IN  [i \in 1..n |->
            [timestamp |-> IF i <= pad THEN i - 1
                           ELSE (i - pad - 1) * FiveMinutes + pad,
             open   |-> IF i <= pad THEN closes[1] ELSE closes[i - pad],
             high   |-> (IF i <= pad THEN closes[1] ELSE closes[i - pad]) + 1,
             low    |-> (IF i <= pad THEN closes[1] ELSE closes[i - pad]) - 1,
             close  |-> IF i <= pad THEN closes[1] ELSE closes[i - pad],
             volume |-> IF i = n THEN 10 * (n - 1) + vstep ELSE 10 * i,
             ltp    |-> IF i = n THEN ltp ELSE 10,
             last_traded_qty |-> qty]]

AnaStart ==
    /\ variant \in {"live_trend_analyzer", "calculate_indecator"}
    /\ \E n \in CandleCounts, base \in BaseCloses, s1 \in TailSteps, s2 \in TailSteps,
          qty \in TickQtys, ltp \in TickLtps, vstep \in LastVolumeSteps :
          /\ \A k \in 1..n : TailCloses(n, base, s1, s2)[k] >= 0
          /\ df = AnalysisTable(TailCloses(n, base, s1, s2), qty, ltp, vstep)
    /\ cumIn = Column(df, "volume")
    /\ df_5m = <<>>
    /\ bpc = "cleaned"
    /\ bres = EmptyDict

\* section 2: the VWAP, or the error dict when nothing was traded
Vwap ==
    /\ bpc = "volume_value"
    /\ LET cum_pv == SumSeq([i \in 1..Len(df) |-> df[i].ltp * df[i].last_traded_qty])
           cum_qty == SumSeq(Column(df, "last_traded_qty"))
           latest == df[Len(df)]
           vwap == RNorm(cum_pv, cum_qty)
       IN  IF cum_qty = 0
           THEN /\ bres' = ("error" :> "VWAP quantity is zero")
                /\ bpc' = "returned"
           ELSE /\ bres' = bres @@ ("vwap" :> vwap) @@
                      ("vwap_signal" :> IF RLt(vwap, R(latest.ltp))
                                        THEN "PRICE_ABOVE_VWAP" ELSE "PRICE_BELOW_VWAP")
                      @@ ("available_indicators" :> <<"Volume & Value", "VWAP">>)
                      @@ ("skipped_indicators" :> <<>>)
                /\ bpc' = "vwap"
    /\ UNCHANGED <<cumIn, df>>
    /\ UNCHANGED anaVars
    /\ UNCHANGED notBat

\* the five-minute candles; calculate_indecator.py gives up below MinCandles
Resample5m ==
    /\ bpc = "vwap"
    /\ df_5m' = Resample(df)
    /\ IF variant = "calculate_indecator" /\ Len(df_5m') < MinCandles
       THEN /\ bres' = ("error" :> "Not enough 5m candles") @@
                       ("candles_available" :> Len(df_5m'))
            /\ bpc' = "returned"
       ELSE /\ bres' = bres
            /\ bpc' = "candles"
    /\ UNCHANGED <<cumIn, df, variant>>
    /\ UNCHANGED notBat

\* section 3: market structure
MarketStructure ==
    /\ bpc = "candles"
    /\ IF variant = "calculate_indecator" \/ Len(df_5m) >= MinCandlesStructure
       THEN bres' = [bres EXCEPT !["available_indicators"] =
                                     Append(@, "Market Structure")]
                    @@ ("market_structure" :> <<StructureOf(df_5m)>>)
       ELSE bres' = [bres EXCEPT !["skipped_indicators"] =
                                     Append(@, "Market Structure (need 10+ min)")]
                    @@ ("market_structure" :> <<>>)
    /\ bpc' = "structure"
    /\ UNCHANGED <<cumIn, df>>
    /\ UNCHANGED anaVars
    /\ UNCHANGED notBat

\* section 4: the EMA crossover.  live_trend_analyzer.py rounds before it
\* compares, calculate_indecator.py compares and rounds for the output.
EmaCrossover ==
    /\ bpc = "structure"
    /\ LET closes == Column(df_5m, "close")
           e20 == EwmLast(closes, EmaShortSpan)
           e50 == EwmLast(closes, EmaLongSpan)
       IN  IF variant = "calculate_indecator"
           THEN bres' = bres @@ ("ema_20" :> <<Round2(e20)>>) @@ ("ema_50" :> <<Round2(e50)>>)
                        @@ ("ema_above" :> RLt(e50, e20))
                        @@ ("ema_signal" :> IF RLt(e50, e20) THEN "EMA20_ABOVE_EMA50"
                                            ELSE "EMA20_BELOW_EMA50")
           ELSE IF Len(df_5m) >= MinCandlesEma
           THEN bres' = [bres EXCEPT !["available_indicators"] = Append(@, "EMA Crossover")]
                        @@ ("ema_20" :> <<Round2(e20)>>) @@ ("ema_50" :> <<Round2(e50)>>)
                        @@ ("ema_above" :> RLt(Round2(e50), Round2(e20)))
                        @@ ("ema_signal" :> IF RLt(Round2(e50), Round2(e20))
                                            THEN "EMA20_ABOVE_EMA50"
                                            ELSE "EMA20_BELOW_EMA50")
           ELSE bres' = [bres EXCEPT !["skipped_indicators"] =
                                         Append(@, "EMA (need 250+ min)")]
                        @@ ("ema_20" :> <<R(0)>>) @@ ("ema_50" :> <<R(0)>>)
                        @@ ("ema_above" :> FALSE)
                        @@ ("ema_signal" :> "INSUFFICIENT_DATA")
    /\ bpc' = "ema"
    /\ UNCHANGED <<cumIn, df>>
    /\ UNCHANGED anaVars
    /\ UNCHANGED notBat

\* section 5: the RSI
Rsi ==
    /\ bpc = "ema"
    /\ LET closes == Column(df_5m, "close")
       IN  IF variant = "calculate_indecator"
           THEN LET r == IndecatorRsi(closes)
                IN  bres' = bres @@ ("rsi" :> r.rsi) @@ ("rsi_raw" :> r.raw)
                            @@ ("rsi_signal" :> r.rsi_signal)
           ELSE LET r == LiveRsi(closes)
                IN  bres' = [bres EXCEPT
                               !["available_indicators"] =
                                   IF r.note = "RSI" THEN Append(@, r.note) ELSE @,
                               !["skipped_indicators"] =
                                   IF r.note = "RSI" THEN @ ELSE Append(@, r.note)]
                            @@ ("rsi" :> r.rsi) @@ ("rsi_raw" :> r.raw)
                            @@ ("rsi_signal" :> r.rsi_signal)
    /\ bpc' = "rsi"
    /\ UNCHANGED <<cumIn, df>>
    /\ UNCHANGED anaVars
    /\ UNCHANGED notBat

\* 55 <= rsi <= 70 on the value the score sees
InZone(x) == RLe(R(55), x) /\ RLe(x, R(70))

\* live_trend_analyzer.py: the bullish score, the overall signal and the
\* returned dict
LiveResult(l, latest, rows, candles) ==
    LET vv == BoolInt(l["volume_value_signal"] = "HIGH_VOLUME_HIGH_VALUE")
        vw == BoolInt(l["vwap_signal"] = "PRICE_ABOVE_VWAP")
        useMs == l["market_structure"] # <<>>
        useEma == Truthy(l["ema_20"]) /\ Truthy(l["ema_50"])
                  /\ l["ema_signal"] # "INSUFFICIENT_DATA"
        useRsi == l["rsi"] # <<>> /\ l["rsi_signal"] # "INSUFFICIENT_DATA"
        bullish_score ==
            vv + vw
            + (IF useMs THEN BoolInt(l["market_structure"] = <<"BULLISH_HH_HL">>) ELSE 0)
            + (IF useEma THEN BoolInt(l["ema_above"]) ELSE 0)
            + (IF useRsi THEN BoolInt(InZone(l["rsi"][1])) ELSE 0)
        max_possible_score == 2 + BoolInt(useMs) + BoolInt(useEma) + BoolInt(useRsi)
        o == OverallOf(bullish_score, max_possible_score)
    IN  [ltp |-> latest.ltp,
         volume |-> latest.volume,
         avg_volume |-> Round2(l["avg_volume"]),
         trade_value |-> latest.trade_value,
         avg_trade_value |-> Round2(l["avg_value"]),
         volume_value_signal |-> l["volume_value_signal"],
         vwap |-> Round2(l["vwap"]),
         vwap_signal |-> l["vwap_signal"],
         market_structure |-> IF useMs THEN l["market_structure"][1] ELSE "N/A",
         ema_20 |-> IF Truthy(l["ema_20"]) THEN l["ema_20"][1] ELSE R(0),
         ema_50 |-> IF Truthy(l["ema_50"]) THEN l["ema_50"][1] ELSE R(0),
         ema_signal |-> l["ema_signal"],
         rsi |-> IF Truthy(l["rsi"]) THEN l["rsi"][1] ELSE R(0),
         rsi_signal |-> l["rsi_signal"],
         bullish_score |-> bullish_score,
         max_score |-> max_possible_score,
         overall_signal |-> o.overall_signal,
         recommendation |-> o.recommendation,
         data_rows |-> rows,
         candles_5m |-> candles,
         available_indicators |-> l["available_indicators"],
         skipped_indicators |-> l["skipped_indicators"]]

\* calculate_indecator.py: the returned dict
IndecatorResult(l, latest) ==
    [ltp |-> latest.ltp,
     volume |-> latest.volume,
     trade_value |-> latest.trade_value,
     volume_value_signal |-> l["volume_value_signal"],
     vwap |-> Round2(l["vwap"]),
     vwap_signal |-> l["vwap_signal"],
     market_structure |-> l["market_structure"][1],
     ema_20 |-> l["ema_20"][1],
     ema_50 |-> l["ema_50"][1],
     ema_signal |-> l["ema_signal"],
     rsi |-> l["rsi"][1],
     rsi_signal |-> l["rsi_signal"],
     bullish_score |->
         BoolInt(l["volume_value_signal"] = "HIGH_VOLUME_HIGH_VALUE")
         + BoolInt(l["vwap_signal"] = "PRICE_ABOVE_VWAP")
         + BoolInt(l["market_structure"] = <<"BULLISH_HH_HL">>)
         + BoolInt(l["ema_above"])
         + BoolInt(InZone(l["rsi_raw"][1]))]

\* the score and the return statement
ScoreAndReturn ==
    /\ bpc = "rsi"
    /\ bres' = IF variant = "calculate_indecator"
               THEN IndecatorResult(bres, df[Len(df)])
               ELSE LiveResult(bres, df[Len(df)], Len(df), Len(df_5m))
    /\ bpc' = "returned"
    /\ UNCHANGED <<cumIn, df>>
    /\ UNCHANGED anaVars
    /\ UNCHANGED notBat

(***************************************************************************)
(* IndicatorState.__init__ (src/indecator.py): the bootstrap of the        *)
(* streaming state from a candle history.  Its first statement asks the    *)
(* object returned by Series.ewm(...) for .iloc; that object is an         *)
(* ExponentialMovingWindow, which has no such attribute (the smoothed      *)
(* series is what .mean() returns), so the constructor raises before it    *)
(* assigns any field.                                                      *)
(***************************************************************************)
IndicatorState_init(d) ==
    [status |-> "raised", err |-> "AttributeError", line |-> "ema_fast"]

\* ---- input histories ----
MaxHist == 4
HistCloses == {1, 2, 3}

HistoryOf(closes) ==
    [i \in 1..Len(closes) |->
        [close |-> closes[i], high |-> closes[i] + 1, low |-> closes[i] - 1,
         volume |-> 10]]

\* hist.df is the whole history of K+N candles, hist.k is K
BootStart ==
    /\ \E n \in 2..MaxHist : \E closes \in [1..n -> HistCloses], k \in 1..(n - 1) :
          hist = [df |-> HistoryOf(closes), k |-> k]
    /\ boot = [status |-> "none"]

\* engine = IndicatorEngine(hist_df) over the first K candles
Bootstrap ==
    /\ hist # <<>>
    /\ boot.status = "none"
    /\ boot' = IndicatorState_init(SubSeq(hist.df, 1, hist.k))
    /\ UNCHANGED hist
    /\ UNCHANGED notCv

RECURSIVE StreamOver(_, _)
\* engine.update(candle) for each candle in order: the state afterwards
StreamOver(st, candles) ==
    IF candles = <<>> THEN st
    ELSE StreamOver(IndicatorEngine_update(st, Head(candles)).st, Tail(candles))

(***************************************************************************)
(* Timestamp normalisation at the head of calculate_intraday_indicators.   *)
(* Epoch timestamps go up to 2^63, so a number is kept as its base-1000    *)
(* digits, least significant first, without leading zeros: 1.7e9 is        *)
(* <<0, 0, 700, 1>>.  Multiplying by 1000 puts a zero digit in front.      *)
(***************************************************************************)
RECURSIVE BigCmpFrom(_, _, _)
BigCmpFrom(a, b, i) ==
    IF i = 0 THEN 0
    ELSE IF a[i] < b[i] THEN 0 - 1
    ELSE IF a[i] > b[i] THEN 1
    ELSE BigCmpFrom(a, b, i - 1)

\* -1, 0 or 1 as a is below, equal to or above b
BigCmp(a, b) ==
    IF Len(a) < Len(b) THEN 0 - 1
    ELSE IF Len(a) > Len(b) THEN 1
    ELSE BigCmpFrom(a, b, Len(a))

BigGt(a, b) == BigCmp(a, b) = 1

\* a * 1000^k
Shift(a, k) == IF a = <<>> THEN a ELSE [i \in 1..k |-> 0] \o a

\* 1000^k
Pow1000(k) == Shift(<<1>>, k)

RECURSIVE Strip(_)
Strip(a) == IF a # <<>> /\ a[Len(a)] = 0 THEN Strip(SubSeq(a, 1, Len(a) - 1)) ELSE a

RECURSIVE AddCarry(_, _)
AddCarry(a, c) ==
    IF c = 0 THEN a
    ELSE IF a = <<>> THEN <<c>>
    ELSE <<(a[1] + c) % 1000>> \o AddCarry(Tail(a), (a[1] + c) \div 1000)

\* a + n for a small n of either sign
AddSmall(a, n) == Strip(AddCarry(a, n))

\* 2^53 .. 2^63
TwoPow ==
    [j \in 53..63 |->
        CASE j = 53 -> <<992, 740, 254, 199, 7, 9>>
          [] j = 54 -> <<984, 481, 509, 398, 14, 18>>
          [] j = 55 -> <<968, 963, 18, 797, 28, 36>>
          [] j = 56 -> <<936, 927, 37, 594, 57, 72>>
          [] j = 57 -> <<872, 855, 75, 188, 115, 144>>
          [] j = 58 -> <<744, 711, 151, 376, 230, 288>>
          [] j = 59 -> <<488, 423, 303, 752, 460, 576>>
          [] j = 60 -> <<976, 846, 606, 504, 921, 152, 1>>
          [] j = 61 -> <<952, 693, 213, 9, 843, 305, 2>>
          [] j = 62 -> <<904, 387, 427, 18, 686, 611, 4>>
          [] j = 63 -> <<808, 775, 854, 36, 372, 223, 9>>]

RECURSIVE Pow2(_)
Pow2(n) == IF n = 0 THEN 1 ELSE 2 * Pow2(n - 1)

\* the gap between neighbouring float64 values at a (a < 2^63)
Ulp(a) ==
    IF BigCmp(a, TwoPow[53]) < 0 THEN 1
    ELSE LET j == CHOOSE j \in 53..62 :
                      /\ BigCmp(a, TwoPow[j]) >= 0
                      /\ BigCmp(a, TwoPow[j + 1]) < 0
         IN  Pow2(j - 52)

\* a mod 2048 (1000^2 = 576, 1000^3 = 512, 1000^4 = 0 mod 2048)
Mod2048(a) ==
    LET d(i) == IF i <= Len(a) THEN a[i] ELSE 0
    IN  (d(1) + 1000 * d(2) + 576 * d(3) + 512 * d(4)) % 2048

\* the float64 nearest to the integer a, ties to the even mantissa: what a
\* column holds once one of its cells is NaN
AsFloat64(a) ==
    LET u == Ulp(a)
        r == Mod2048(a) % u
        down == AddSmall(a, 0 - r)
        up == AddSmall(a, u - r)
    IN  IF r = 0 THEN a
        ELSE IF 2 * r < u THEN down
        ELSE IF 2 * r > u THEN up
        ELSE IF Mod2048(down) % (2 * u) = 0 THEN down ELSE up

\* the largest instant a datetime64[ns] holds: 2^63 - 1 nanoseconds
MaxNs == AddSmall(TwoPow[63], 0 - 1)

RECURSIVE BigMaxOf(_)
BigMaxOf(s) ==
    IF Len(s) = 1 THEN s[1]
    ELSE LET m == BigMaxOf(Tail(s))
         IN  IF BigGt(s[1], m) THEN s[1] ELSE m

RECURSIVE BigInsert(_, _)
BigInsert(s, x) ==
    IF s = <<>> THEN <<x>>
    ELSE IF BigCmp(x, s[1]) <= 0 THEN <<x>> \o s
    ELSE <<s[1]>> \o BigInsert(Tail(s), x)

RECURSIVE BigSort(_)
\* sort_values
BigSort(s) == IF s = <<>> THEN s ELSE BigInsert(BigSort(Tail(s)), s[1])

\* a cell of column exchange_timestamp: a number, or something that is not
Num(v) == [numeric |-> TRUE, v |-> v]
NotNum == [numeric |-> FALSE, v |-> <<>>]

\* pd.to_numeric(col, errors='coerce').dropna(): the numbers, as float64
\* when a cell was coerced to NaN and as int64 otherwise
ToNumeric(col) ==
    LET idx == SortedSeq({i \in 1..Len(col) : col[i].numeric})
        mixed == \E i \in 1..Len(col) : ~col[i].numeric
    IN  [j \in 1..Len(idx) |->
            IF mixed THEN AsFloat64(col[idx[j]].v) ELSE col[idx[j]].v]

Units == <<"s", "ms", "us", "ns">>

\* the thresholds compared with >= instead of >
PickUnit_ge(max_ts) ==
    IF BigCmp(max_ts, Pow1000(6)) >= 0 THEN 4
    ELSE IF BigCmp(max_ts, Pow1000(5)) >= 0 THEN 3
    ELSE IF BigCmp(max_ts, Pow1000(4)) >= 0 THEN 2
    ELSE 1
\* if max_ts > 10**18 ... elif max_ts > 10**15 ... elif max_ts > 10**12 ... else
PickUnit(max_ts) ==
    IF BigGt(max_ts, Pow1000(6)) THEN 4
    ELSE IF BigGt(max_ts, Pow1000(5)) THEN 3
    ELSE IF BigGt(max_ts, Pow1000(4)) THEN 2
    ELSE 1

\* pd.to_datetime(cell, unit=Units[u], errors='coerce'): the instant in
\* nanoseconds, or NaT (NaN here) for what is no number or lies past MaxNs
ToDatetime(cell, u) ==
    IF ~cell.numeric THEN NaN
    ELSE IF BigGt(Shift(cell.v, 4 - u), MaxNs) THEN NaN
    ELSE <<Shift(cell.v, 4 - u)>>

NormalizeTimestampsOf(col) ==
    LET ts == ToNumeric(col)
        u == PickUnit(BigMaxOf(ts))
        converted == [i \in 1..Len(col) |-> ToDatetime(col[i], u)]
        kept == SortedSeq({i \in 1..Len(col) : converted[i] # NaN})
        timestamp == BigSort([j \in 1..Len(kept) |-> converted[kept[j]][1]])
    IN  IF Len(col) < MinRows
        THEN [status |-> "error", err |-> "Not enough raw data"]
        ELSE IF ts = <<>>
        THEN [status |-> "error", err |-> "Invalid exchange_timestamp data"]
        ELSE IF Len(timestamp) < MinRows
        THEN [status |-> "error", unit |-> Units[u],
              err |-> "Not enough rows after timestamp normalization"]
        ELSE [status |-> "ok", unit |-> Units[u], timestamp |-> timestamp]

\* ---- input columns ----
\* instants, in whole seconds since the epoch: 2000-01-01, 10^9 (2001-09-09),
\* one second later, 1.7e9 (2023-11-14), the last second of datetime64[ns],
\* and 10^12
Instants ==
    { <<800, 684, 946>>, <<0, 0, 0, 1>>, <<1, 0, 0, 1>>, <<0, 0, 700, 1>>,
      <<36, 372, 223, 9>>, <<0, 0, 0, 0, 1>> }

\* timestamps next to the thresholds
EdgeValues ==
    { AddSmall(Pow1000(k), n) : k \in {4, 5, 6}, n \in {0 - 1, 1, 64, 65} }

EarlierValues == { <<5>> }

\* ten rows: nine that hold `lo` and the latest one, which holds `top`
\* (the maximum); then one cell is spoilt, or one spoilt row is added, or
\* all are
ColumnOf(top, lo, bad) ==
    LET plain == [i \in 1..MinRows |-> IF i = MinRows THEN Num(top) ELSE Num(lo)]
    IN  CASE bad = "none" -> plain
          [] bad = "extra" -> <<NotNum>> \o plain
          [] bad = "replace" -> [plain EXCEPT ![1] = NotNum]
          [] bad = "all" -> [i \in 1..MinRows |-> NotNum]

BadModes == {"none", "extra", "replace", "all"}

\* tsIn.meant is <<t, u>> when the column holds the instant t (seconds) in
\* unit Units[u], and <<>> when it holds an edge value; every timestamp is
\* an int64, as the decoder reads it
TsStart ==
    /\ \/ \E t \in Instants, u \in 1..4, lo \in EarlierValues \cup {<<>>},
             bad \in BadModes :
             /\ ~BigGt(Shift(t, u - 1), MaxNs)
             /\ tsIn = [col |-> ColumnOf(Shift(t, u - 1),
                                         IF lo = <<>> THEN Shift(t, u - 1) ELSE lo, bad),
                        meant |-> <<t, u>>]
       \/ \E v \in EdgeValues, lo \in EarlierValues, bad \in BadModes :
             tsIn = [col |-> ColumnOf(v, lo, bad), meant |-> <<>>]
    /\ tsOut = [status |-> "none"]

\* the validation and the timestamp normalisation
NormalizeTimestamps ==
    /\ tsIn # <<>>
    /\ tsOut.status = "none"
    /\ tsOut' = NormalizeTimestampsOf(tsIn.col)
    /\ UNCHANGED tsIn
    /\ UNCHANGED notTs

(***************************************************************************)
(* The tick store: table market_ticks behind insert_market_tick, and the   *)
(* websocket handler on_message that feeds it.                             *)
(***************************************************************************)
\* the columns bound from the dict by data.get(...); received_at is the
\* wall clock of the call and is not kept here
Columns ==
    {"token", "exchange_type", "subscription_mode", "sequence_number",
     "exchange_timestamp", "exchange_timestamp_human", "ltp",
     "last_traded_qty", "avg_traded_price", "volume", "total_buy_qty",
     "total_sell_qty", "open", "high", "low", "close", "last_traded_time",
     "open_interest", "oi_change_percent", "upper_circuit", "lower_circuit",
     "week_52_high", "week_52_low"}

\* the bound values: data.get(c) is NULL for a key the dict lacks, and a
\* NULL column is a column the row does not define
RowOf(data) == [c \in Columns \cap DOMAIN data |-> data[c]]

\* unique index uniq_token_exchange_ts: two rows collide when both columns
\* are set and equal (a NULL never collides)
KeyCols == {"token", "exchange_timestamp"}
Keyed(row) == KeyCols \subseteq DOMAIN row
KeyOf(row) == <<row["token"], row["exchange_timestamp"]>>
Collides(a, b) == Keyed(a) /\ Keyed(b) /\ KeyOf(a) = KeyOf(b)

\* a plain INSERT against a table without the unique index
InsertOrIgnore_plain(table, row) == Append(table, row)

\* INSERT OR IGNORE INTO market_ticks
InsertOrIgnore(table, row) ==
    IF \E i \in 1..Len(table) : Collides(table[i], row)
    THEN table
    ELSE Append(table, row)

\* a handler without the try block: the exception leaves on_message
on_message_uncaught(table, m) ==
    LET p == parse_market_data(m.data)
    IN  IF m.kind # "bytes"
        THEN [outcome |-> "returned", log |-> None, table |-> table, ran |-> <<>>]
        ELSE IF p.status = "error"
        THEN [outcome |-> "raised", log |-> p.err, table |-> table, ran |-> <<>>]
        ELSE [outcome |-> "raised", log |-> "KeyError",
              table |-> InsertOrIgnore(table, RowOf(p.rec)), ran |-> <<RowOf(p.rec)>>]

\* on_message(ws, message) against the table: how the call ended, what it
\* printed after "Parse/DB error:", the table it leaves and the rows whose
\* INSERT ran.  The dict of parse_market_data has no key
\* exchange_timestamp_human, so the [TICK] line raises KeyError after the
\* insert; `except Exception` catches it like the decoder's errors.
on_message(table, m) ==
    LET p == parse_market_data(m.data)
    IN  IF m.kind # "bytes"
        THEN [outcome |-> "returned", log |-> None, table |-> table, ran |-> <<>>]
        ELSE IF p.status = "error"
        THEN [outcome |-> "returned", log |-> p.err, table |-> table, ran |-> <<>>]
        ELSE [outcome |-> "returned",
              log |-> IF "exchange_timestamp_human" \in DOMAIN p.rec
                      THEN None ELSE "KeyError",
              table |-> InsertOrIgnore(table, RowOf(p.rec)), ran |-> <<RowOf(p.rec)>>]

\* a frame with another exchange timestamp (the eight bytes after the
\* sequence number)
WithTimestamp(frame, ts) ==
    SubSeq(frame, 1, 35) \o EncLE(ts, 8) \o SubSeq(frame, 44, Len(frame))

GoodParams == [mode |-> 3, exch |-> 1, tok |-> <<49, 55, 57, 51, 57>>,
               base |-> 1000000000, len |-> 379]

\* what the socket delivers: a text message, complete frames of the three
\* modes (two of them for the same token and second), a frame cut inside the
\* depth block, a frame with a token that is not UTF-8, an empty frame
StreamMessages ==
    { [kind |-> "text", data |-> <<112, 111, 110, 103>>],
      [kind |-> "bytes", data |-> FrameOf(GoodParams)],
      [kind |-> "bytes", data |-> WithTimestamp(FrameOf(GoodParams), 1701)],
      [kind |-> "bytes", data |-> FrameOf([GoodParams EXCEPT !.mode = 1, !.len = 51,
                                                             !.base = 0 - 250])],
      [kind |-> "bytes", data |-> FrameOf([GoodParams EXCEPT !.mode = 2, !.len = 123,
                                                             !.exch = 13])],
      [kind |-> "bytes", data |-> FrameOf([GoodParams EXCEPT !.len = 200])],
      [kind |-> "bytes", data |-> FrameOf([GoodParams EXCEPT !.tok = <<78, 255>>])],
      [kind |-> "bytes", data |-> <<>>] }

MaxMessages == 3

\* run_forever delivers the next message while no callback has raised
StreamAlive == \A i \in 1..Len(handled) : handled[i].outcome = "returned"

\* one call of on_message, insert_market_tick included: the lock is taken
\* and released and the insert is committed inside the call
OnMessage ==
    /\ Len(handled) < MaxMessages
    /\ StreamAlive
    /\ lock = 0
    /\ \E m \in StreamMessages :
          LET r == on_message(market_ticks, m)
          IN  /\ handled' = Append(handled, [msg |-> m, outcome |-> r.outcome,
                                             log |-> r.log, before |-> market_ticks,
                                             after |-> r.table])
              /\ market_ticks' = r.table
              /\ durable' = IF r.ran = <<>> THEN durable ELSE Len(r.table)
              /\ executed' = executed \o r.ran
    /\ UNCHANGED <<lock, tpc, targ>>
    /\ UNCHANGED notDb

Threads == {1, 2}

\* the dicts insert_market_tick is called with: decoded ticks of one token,
\* two seconds, two prices each
TickOf(ts, base) ==
    parse_market_data(
        WithTimestamp(FrameOf([GoodParams EXCEPT !.mode = 1, !.len = 51, !.base = base]),
                      ts)).rec

DbTicks == { TickOf(ts, base) : ts \in {1700, 1701}, base \in RawBases }

MaxCalls == 3

\* calls begun whose INSERT has not run yet
Pending == Cardinality({t \in Threads : tpc[t] \in {"acquire", "execute"}})

\* a thread enters insert_market_tick(data)
Call ==
    /\ Len(executed) + Pending < MaxCalls
    /\ \E t \in Threads, data \in DbTicks :
          /\ tpc[t] = "idle"
          /\ tpc' = [tpc EXCEPT ![t] = "acquire"]
          /\ targ' = [targ EXCEPT ![t] = data]
    /\ UNCHANGED <<market_ticks, durable, lock, executed, handled>>
    /\ UNCHANGED notDb

\* `with _lock:` blocks until the lock is free, then holds it
Acquire ==
    /\ \E t \in Threads :
          /\ tpc[t] = "acquire"
          /\ lock = 0
          /\ lock' = t
          /\ tpc' = [tpc EXCEPT ![t] = "execute"]
    /\ UNCHANGED <<market_ticks, durable, targ, executed, handled>>
    /\ UNCHANGED notDb

\* _cur.execute("INSERT OR IGNORE ...", (data.get(...), ...))
Execute ==
    /\ \E t \in Threads :
          /\ tpc[t] = "execute"
          /\ market_ticks' = InsertOrIgnore(market_ticks, RowOf(targ[t]))
          /\ executed' = Append(executed, RowOf(targ[t]))
          /\ tpc' = [tpc EXCEPT ![t] = "commit"]
    /\ UNCHANGED <<durable, lock, targ, handled>>
    /\ UNCHANGED notDb

\* _conn.commit()
Commit ==
    /\ \E t \in Threads :
          /\ tpc[t] = "commit"
          /\ durable' = Len(market_ticks)
          /\ tpc' = [tpc EXCEPT ![t] = "release"]
    /\ UNCHANGED <<market_ticks, lock, targ, executed, handled>>
    /\ UNCHANGED notDb

\* the end of the with block
Release ==
    /\ \E t \in Threads :
          /\ tpc[t] = "release"
          /\ lock' = 0
          /\ tpc' = [tpc EXCEPT ![t] = "idle"]
          /\ targ' = [targ EXCEPT ![t] = EmptyDict]
    /\ UNCHANGED <<market_ticks, durable, executed, handled>>
    /\ UNCHANGED notDb

(***************************************************************************)
(* Market structure: TechnicalIndicators.calculate_market_structure over   *)
(* swing points, and the two-candle comparison of live_trend_analyzer.py.  *)
(***************************************************************************)
StructureWindow == 10
BreakdownWindow == 5
MinCandlesSwing == 3

\* Series.tail(n)
TailOf(s, n) == SubSeq(s, Max(1, Len(s) - n + 1), Len(s))

RECURSIVE Pick(_, _, _)
\* the values of s at the positions from i on that are in idx, in order
Pick(s, idx, i) ==
    IF i > Len(s) THEN <<>>
    ELSE IF i \in idx THEN <<s[i]>> \o Pick(s, idx, i + 1)
    ELSE Pick(s, idx, i + 1)

\* range(1, len(highs) - 1) in positions counted from 1
Inner(s) == 2..(Len(s) - 1)
PeakPositions(highs) ==
    {i \in Inner(highs) : highs[i] > highs[i - 1] /\ highs[i] > highs[i + 1]}
TroughPositions(lows) ==
    {i \in Inner(lows) : lows[i] < lows[i - 1] /\ lows[i] < lows[i + 1]}

SeqMin(s) == CHOOSE x \in {s[i] : i \in 1..Len(s)} : \A i \in 1..Len(s) : x <= s[i]
SeqMax(s) == CHOOSE x \in {s[i] : i \in 1..Len(s)} : \A i \in 1..Len(s) : x >= s[i]

\* None is <<>>, a returned dict d is <<d>>.
\* the breakdown test taken over the whole swing window
calculate_market_structure_wide(d) ==
    IF Len(d) < MinCandlesSwing THEN <<>>
    ELSE LET highs == TailOf(Column(d, "high"), StructureWindow)
             lows  == TailOf(Column(d, "low"), StructureWindow)
             peaks   == Pick(highs, PeakPositions(highs), 1)
             troughs == Pick(lows, TroughPositions(lows), 1)
             np == Len(peaks)
             nt == Len(troughs)
             higher_high == np >= 2 /\ peaks[np] > peaks[np - 1]
             higher_low  == nt >= 2 /\ troughs[nt] > troughs[nt - 1]
             no_breakdown ==
                 IF nt >= 2
                 THEN SeqMin(lows) > troughs[nt - 1]
                 ELSE TRUE
             is_bullish == higher_high /\ higher_low /\ no_breakdown
         IN  << [structure |-> IF is_bullish THEN "BULLISH" ELSE "BEARISH/CONSOLIDATING",
                 higher_high |-> higher_high, higher_low |-> higher_low,
                 no_breakdown |-> no_breakdown, is_bullish |-> is_bullish,
                 latest_high |-> Round2(R(SeqMax(highs))),
                 latest_low |-> Round2(R(SeqMin(lows)))] >>

\* TechnicalIndicators.calculate_market_structure(df)
calculate_market_structure(d) ==
    IF Len(d) < MinCandlesSwing THEN <<>>
    ELSE LET highs == TailOf(Column(d, "high"), StructureWindow)
             lows  == TailOf(Column(d, "low"), StructureWindow)
             peaks   == Pick(highs, PeakPositions(highs), 1)
             troughs == Pick(lows, TroughPositions(lows), 1)
             np == Len(peaks)
             nt == Len(troughs)
             higher_high == np >= 2 /\ peaks[np] > peaks[np - 1]
             higher_low  == nt >= 2 /\ troughs[nt] > troughs[nt - 1]
             no_breakdown ==
                 IF nt >= 2
                 THEN SeqMin(TailOf(Column(d, "low"), BreakdownWindow)) > troughs[nt - 1]
                 ELSE TRUE
             is_bullish == higher_high /\ higher_low /\ no_breakdown
         IN  << [structure |-> IF is_bullish THEN "BULLISH" ELSE "BEARISH/CONSOLIDATING",
                 higher_high |-> higher_high, higher_low |-> higher_low,
                 no_breakdown |-> no_breakdown, is_bullish |-> is_bullish,
                 latest_high |-> Round2(R(SeqMax(highs))),
                 latest_low |-> Round2(R(SeqMin(lows)))] >>

\* ---- the candles the structure is computed from ----
FreeLows == 5
LowValues == {1, 2, 3, 4}
LowPrefixes == { <<3, 2, 3, 1, 1>>, <<4, 4, 4, 4, 4>>, <<4, 3, 2, 3, 4>> }

\* the high of candle i: peaks that rise, peaks that fall, no peak at all
HighShapes == {"rising", "falling", "ramp"}
HighOf(shape, i) ==
    CASE shape = "rising"  -> 10 + i + (IF i % 2 = 0 THEN 2 ELSE 0)
      [] shape = "falling" -> 40 - i + (IF i % 2 = 0 THEN 2 ELSE 0)
      [] OTHER             -> 10 + i

SwingCandles(shape, lows) ==
    [i \in 1..Len(lows) |-> [high |-> HighOf(shape, i), low |-> lows[i]]]

MsIdle ==
    /\ msIn = <<>>
    /\ msOut = EmptyDict

MsStart ==
    /\ \E shape \in HighShapes, prefix \in LowPrefixes,
          free \in [1..FreeLows -> LowValues] :
          \E n \in {MinCandlesStructure, MinCandlesSwing, Len(prefix) + FreeLows} :
              msIn = TailOf(SwingCandles(shape, prefix \o free), n)
    /\ msOut = EmptyDict

\* TechnicalIndicators().calculate_market_structure(df_5m)
StructureTechnical ==
    /\ msIn # <<>>
    /\ "calculate_indicators" \notin DOMAIN msOut
    /\ msOut' = msOut @@ ("calculate_indicators" :> calculate_market_structure(msIn))
    /\ UNCHANGED msIn
    /\ UNCHANGED notMs

\* section 3 of live_trend_analyzer.calculate_intraday_indicators
StructureLive ==
    /\ msIn # <<>>
    /\ "live_trend_analyzer" \notin DOMAIN msOut
    /\ msOut' = msOut @@ ("live_trend_analyzer" :>
                            IF Len(msIn) >= MinCandlesStructure
                            THEN StructureOf(msIn) ELSE None)
    /\ UNCHANGED msIn
    /\ UNCHANGED notMs

(***************************************************************************)
(* Two securities side by side: one CandleBuilder and one IndicatorEngine  *)
(* each, their loops interleaved turn by turn.  All candle dicts live in   *)
(* one heap, as Python objects do.                                         *)
(***************************************************************************)
Securities == {1, 2}

\* an attribute kept on the class: every instance reads the same slot
PairGet_shared(f, s) == f[1]

\* self.<attribute> read and written on instance s
PairGet(f, s) == f[s]
PairPut(f, s, v) == [f EXCEPT ![s] = v]

\* the turns each security's loop may take
MaxPairCalls == 2

PairTicks ==
    { [timestamp |-> 59999, ltp |-> 1, volume |-> 100],
      [timestamp |-> 59999, ltp |-> 3, volume |-> 150],
      [timestamp |-> 61500, ltp |-> 1, volume |-> 150] }

FreshBuilder == [current |-> NoRef, prev_volume |-> <<>>]

PairIdle ==
    /\ pheap = <<>>
    /\ builders = <<>>
    /\ engines = <<>>
    /\ born = <<>>
    /\ outs = <<>>
    /\ calls = <<>>

\* builder = CandleBuilder(); engine = IndicatorEngine(hist_df), per security
PairStart ==
    /\ pheap = <<>>
    /\ builders = [s \in Securities |-> FreshBuilder]
    /\ engines \in [Securities ->
                      {StartState(c, <<1, 1>>, <<1, 2>>, 10, FALSE, 1) : c \in StartCloses}]
    /\ born = engines
    /\ outs = [s \in Securities |-> <<>>]
    /\ calls = <<>>

RECURSIVE OwnTicks(_, _)
\* the ticks of security s among the calls c, in order
OwnTicks(c, s) ==
    IF c = <<>> THEN <<>>
    ELSE (IF Head(c).s = s THEN <<Head(c).tick>> ELSE <<>>) \o OwnTicks(Tail(c), s)

\* the loop of security s has not been left by an exception
PairAlive(s) == \A i \in 1..Len(outs[s]) : outs[s][i].status = "returned"

\* one turn of the loop of one security:
\*     candle = builder.update(tick)
\*     if candle: indicators = engine.update(candle)
PairStep ==
    /\ \E s \in Securities, t \in PairTicks :
          LET mine == PairGet(builders, s)
              u == CandleBuilder_update([heap |-> pheap, current |-> mine.current,
                                         prev_volume |-> mine.prev_volume], t)
              e == IndicatorEngine_update(PairGet(engines, s), u.b.heap[u.ret])
          IN  /\ Len(OwnTicks(calls, s)) < MaxPairCalls
              /\ PairAlive(s)
              /\ pheap' = u.b.heap
              /\ builders' = PairPut(builders, s, [current |-> u.b.current,
                                                   prev_volume |-> u.b.prev_volume])
              /\ engines' = IF u.ret # NoRef THEN PairPut(engines, s, e.st) ELSE engines
              /\ outs' = IF u.ret # NoRef
                         THEN [outs EXCEPT ![s] = Append(@, e.res)] ELSE outs
              /\ calls' = Append(calls, [s |-> s, tick |-> t])
    /\ UNCHANGED born
    /\ UNCHANGED notPair

(***************************************************************************)
(* The reconnecting client (ws_client.py).  start() builds a connection    *)
(* and blocks in run_forever; the library calls on_open when the server    *)
(* accepts and on_close when a connection, accepted or not, ends.  on_close *)
(* sleeps and calls start() again from inside the handler, or returns.     *)
(***************************************************************************)
MAX_RECONNECT_ATTEMPTS == 5
RECONNECT_DELAY == 5

\* ws_client.py line 75: the delay before the attempt numbered count.
Backoff(count) == RECONNECT_DELAY * (2 ^ (count - 1))

\* on_open's assignment to the counter (line 22), and the same handler
\* without it.
on_open_keeps(count) == count
on_open(count) == 0

\* Bound: the server accepts at most this many connections.
MaxOpens == 3

WsIdle ==
    /\ reconnect_count = 0
    /\ conn = "idle"
    /\ slept = <<>>
    /\ streak = 0
    /\ opens = 0

\* __main__: the module is loaded and start() has been called.
WsStart ==
    /\ reconnect_count = 0
    /\ conn = "connecting"
    /\ slept = <<>>
    /\ streak = 0
    /\ opens = 0

\* The server accepts the connection: the library calls on_open.
OnOpen ==
    /\ conn = "connecting"
    /\ opens < MaxOpens
    /\ reconnect_count' = on_open(reconnect_count)
    /\ conn' = "open"
    /\ streak' = 0
    /\ opens' = opens + 1
    /\ UNCHANGED slept
    /\ UNCHANGED notWs

\* A connection ends, refused or dropped: the library calls on_close, which
\* sleeps and starts the next connection, or gives up.
OnClose ==
    /\ conn \in {"connecting", "open"}
    /\ streak' = streak + 1
    /\ IF reconnect_count < MAX_RECONNECT_ATTEMPTS
         THEN /\ reconnect_count' = reconnect_count + 1
              /\ slept' = Append(slept, Backoff(reconnect_count + 1))
              /\ conn' = "connecting"
         ELSE /\ conn' = "stopped"
              /\ UNCHANGED <<reconnect_count, slept>>
    /\ UNCHANGED opens
    /\ UNCHANGED notWs

(***************************************************************************)
(* The components at rest.                                                 *)
(***************************************************************************)

AnaIdle ==
    /\ variant = None
    /\ df_5m = <<>>

TsIdle ==
    /\ tsIn = <<>>
    /\ tsOut = [status |-> "none"]

CvIdle ==
    /\ hist = <<>>
    /\ boot = [status |-> "none"]

DbIdle ==
    /\ market_ticks = <<>>
    /\ durable = 0
    /\ lock = 0
    /\ tpc = [t \in Threads |-> "idle"]
    /\ targ = [t \in Threads |-> EmptyDict]
    /\ executed = <<>>
    /\ handled = <<>>

(***************************************************************************)
(* Specifications: one per component, the other components at rest.        *)
(***************************************************************************)
EngIdle ==
    /\ state = EmptyDict
    /\ fed = <<>>
    /\ result = [status |-> "none"]
    /\ lpc = "idle"

LiveIdle == BldStart /\ EngIdle

InitDecode == DecStart /\ BatIdle /\ LiveIdle /\ AnaIdle /\ RsiIdle /\ TsIdle /\ CvIdle /\ DbIdle /\ MsIdle /\ PairIdle /\ WsIdle
NextDecode == Decode
SpecDecode == InitDecode /\ [][NextDecode]_vars

InitBatch == BatStart /\ DecIdle /\ LiveIdle /\ AnaIdle /\ RsiIdle /\ TsIdle /\ CvIdle /\ DbIdle /\ MsIdle /\ PairIdle /\ WsIdle
NextBatch == CheckRows \/ FixVolume \/ VolumeValue
SpecBatch == InitBatch /\ [][NextBatch]_vars

InitCandle == BldStart /\ EngIdle /\ DecIdle /\ BatIdle /\ AnaIdle /\ RsiIdle /\ TsIdle /\ CvIdle /\ DbIdle /\ MsIdle /\ PairIdle /\ WsIdle
NextCandle == BuilderUpdate
SpecCandle == InitCandle /\ [][NextCandle]_vars

InitLive == BldStart /\ EngStart /\ DecIdle /\ BatIdle /\ AnaIdle /\ RsiIdle /\ TsIdle /\ CvIdle /\ DbIdle /\ MsIdle /\ PairIdle /\ WsIdle
NextLive == LiveStep
SpecLive == InitLive /\ [][NextLive]_vars

\* the whole batch analysis, either variant, on tick tables that span from one
\* to fifty five-minute candles
InitAnalyze == AnaStart /\ DecIdle /\ LiveIdle /\ RsiIdle /\ TsIdle /\ CvIdle /\ DbIdle /\ MsIdle /\ PairIdle /\ WsIdle
NextAnalyze ==
    \/ CheckRows \/ FixVolume \/ VolumeValue \/ Vwap \/ Resample5m
    \/ MarketStructure \/ EmaCrossover \/ Rsi \/ ScoreAndReturn
SpecAnalyze == InitAnalyze /\ [][NextAnalyze]_vars

\* the bootstrap of the streaming state from a history
InitBoot == BootStart /\ DecIdle /\ BatIdle /\ LiveIdle /\ AnaIdle /\ RsiIdle /\ TsIdle /\ DbIdle /\ MsIdle /\ PairIdle /\ WsIdle
NextBoot == Bootstrap
SpecBoot == InitBoot /\ [][NextBoot]_vars

\* the timestamp normalisation on columns around every threshold
InitTs == TsStart /\ DecIdle /\ BatIdle /\ LiveIdle /\ AnaIdle /\ RsiIdle /\ CvIdle /\ DbIdle /\ MsIdle /\ PairIdle /\ WsIdle
NextTs == NormalizeTimestamps
SpecTs == InitTs /\ [][NextTs]_vars

\* the three batch RSI computations, each applied to the same closes
InitRsi == RsiStart /\ DecIdle /\ BatIdle /\ LiveIdle /\ AnaIdle /\ TsIdle /\ CvIdle /\ DbIdle /\ MsIdle /\ PairIdle /\ WsIdle
NextRsi == RsiLive \/ RsiIndecator \/ RsiTechnical
SpecRsi == InitRsi /\ [][NextRsi]_vars

\* the websocket handler over every sequence of up to MaxMessages messages
InitStream == DbIdle /\ DecIdle /\ BatIdle /\ LiveIdle /\ AnaIdle /\ RsiIdle /\ TsIdle /\ CvIdle /\ MsIdle /\ PairIdle /\ WsIdle
NextStream == OnMessage
SpecStream == InitStream /\ [][NextStream]_vars

\* insert_market_tick called from two threads, up to MaxCalls calls
InitDb == DbIdle /\ DecIdle /\ BatIdle /\ LiveIdle /\ AnaIdle /\ RsiIdle /\ TsIdle /\ CvIdle /\ MsIdle /\ PairIdle /\ WsIdle
NextDb == Call \/ Acquire \/ Execute \/ Commit \/ Release
SpecDb == InitDb /\ [][NextDb]_vars

\* the two market structure computations, each applied to the same candles
InitStructure == MsStart /\ DecIdle /\ BatIdle /\ LiveIdle /\ AnaIdle /\ RsiIdle /\ TsIdle /\ CvIdle /\ DbIdle /\ PairIdle /\ WsIdle
NextStructure == StructureTechnical \/ StructureLive
SpecStructure == InitStructure /\ [][NextStructure]_vars

\* the loops of two securities, interleaved in every order
InitPair == PairStart /\ DecIdle /\ BatIdle /\ LiveIdle /\ AnaIdle /\ RsiIdle /\ TsIdle /\ CvIdle /\ DbIdle /\ MsIdle /\ WsIdle
NextPair == PairStep
SpecPair == InitPair /\ [][NextPair]_vars

\* The reconnecting client.  A connection attempt that the server does not
\* accept ends at some time, and the library reports the end of every
\* connection through on_close; an open connection may stay open for ever.
InitReconnect == WsStart /\ DecIdle /\ BatIdle /\ LiveIdle /\ AnaIdle /\ RsiIdle /\ TsIdle /\ CvIdle /\ DbIdle /\ MsIdle /\ PairIdle
NextReconnect == OnOpen \/ OnClose
Refused == OnClose /\ conn = "connecting"
SpecReconnect == InitReconnect /\ [][NextReconnect]_vars /\ WF_vars(Refused)

(***************************************************************************)
(* The decoder's claims.                                                   *)
(***************************************************************************)
RECURSIVE SizeOf(_)
SizeOf(fields) == IF fields = <<>> THEN 0 ELSE Head(fields)[3] + SizeOf(Tail(fields))

\* the full layout of a known mode, in bytes: 51, 123, 379
LayoutLen(mode) ==
    SizeOf(HeaderFields)
    + (IF mode >= 2 THEN SizeOf(QuoteFields) ELSE 0)
    + (IF mode >= 3
       THEN SizeOf(SnapHeadFields) + BestFiveEntries * (2 + 8 + 8 + 2) + SizeOf(SnapTailFields)
       ELSE 0)

LtpKeys ==
    {"subscription_mode", "exchange_type", "token", "sequence_number",
     "exchange_timestamp", "ltp"}
QuoteOnlyKeys ==
    {"last_traded_qty", "avg_traded_price", "volume", "total_buy_qty",
     "total_sell_qty", "open", "high", "low", "close"}
SnapOnlyKeys ==
    {"last_traded_time", "open_interest", "oi_change_percent", "best_five",
     "upper_circuit", "lower_circuit", "week_52_high", "week_52_low"}

\* C1: a frame whose subscription-mode byte is none of 1, 2, 3 ends in a
\* decode failure, whatever its length; it is never decoded as a known mode.
C1_UnknownModeFails ==
    (dpc = "done" /\ frameIn.len >= 1 /\ frameIn.mode \notin {1, 2, 3})
        => dres.status = "error"

\* C2: a frame of a known mode that is shorter than that mode's full layout
\* (51, 123, 379 bytes) ends in a decode failure, at every truncation point.
C2_TruncatedFails ==
    (dpc = "done" /\ frameIn.mode \in {1, 2, 3}
        /\ frameIn.len < LayoutLen(frameIn.mode))
        => dres.status = "error"

\* C3: the fields of a returned record are fixed by its subscription mode:
\* LTP holds the six header fields only, QUOTE adds the nine quote fields and
\* nothing else, and only a SNAPQUOTE record holds the snap-quote fields
\* (best_five with exactly 10 entries).
C3_FieldsByMode ==
    dres.status = "ok" =>
        LET r == dres.rec
            m == r["subscription_mode"]
        IN  /\ m = 1 => DOMAIN r = LtpKeys
            /\ m = 2 => DOMAIN r = LtpKeys \cup QuoteOnlyKeys
            /\ m = 3 => /\ DOMAIN r = LtpKeys \cup QuoteOnlyKeys \cup SnapOnlyKeys
                        /\ Len(r["best_five"]) = BestFiveEntries
            /\ (DOMAIN r \cap QuoteOnlyKeys # {}) => m \in {2, 3}
            /\ (DOMAIN r \cap SnapOnlyKeys # {}) => m = 3

IsQuotient(q, raw, den) ==
    /\ q.den = den
    /\ q.frac \in 0..(den - 1)
    /\ q.whole * den + q.frac = raw

\* C4: in one decoded record every price field is its raw value divided by
\* one divisor fixed by exchange_type: 10,000,000 for type 13, 100 otherwise;
\* raw 1000000000 gives 100 under type 13 and 10000000 under any other type.
C4_OneDivisor ==
    dres.status = "ok" =>
        LET r == dres.rec
            D == IF r["exchange_type"] = 13 THEN 10000000 ELSE 100
        IN  /\ \A i \in 1..Len(PriceNames) :
                   PriceNames[i] \in DOMAIN r =>
                       IsQuotient(r[PriceNames[i]], RawOf(frameIn.base, PriceNames[i]), D)
            /\ "best_five" \in DOMAIN r =>
                   \A k \in 1..Len(r["best_five"]) :
                       IsQuotient(r["best_five"][k].price, RawDepth(frameIn.base, k), D)
            /\ frameIn.base = 1000000000 =>
                   /\ r["ltp"].frac = 0
                   /\ r["ltp"].whole = IF r["exchange_type"] = 13 THEN 100 ELSE 10000000

C4_Witness ==
    /\ dres.status = "ok"
    /\ dres.rec["subscription_mode"] = 3
    /\ dres.rec["exchange_type"] = 13
    /\ frameIn.base = 1000000000
    /\ dres.rec["ltp"] = [whole |-> 100, frac |-> 0, den |-> 10000000]
    /\ Len(dres.rec["best_five"]) = 10

(***************************************************************************)
(* The batch volume correction's claim.                                    *)
(***************************************************************************)
\* the period volume of row i, straight from the cumulative column
PeriodVolume(i) ==
    IF i = 1 THEN 0
    ELSE IF cumIn[i] - cumIn[i - 1] > 0 THEN cumIn[i] - cumIn[i - 1] ELSE 0

\* the rows the trailing average runs over: the last 20, or all below 20 rows
TrailingRows ==
    IF Len(cumIn) >= 20 THEN (Len(cumIn) - 19)..Len(cumIn) ELSE 1..Len(cumIn)

RECURSIVE PeriodSum(_)
PeriodSum(rows) ==
    IF rows = {} THEN 0
    ELSE LET i == CHOOSE j \in rows : TRUE
         IN  PeriodVolume(i) + PeriodSum(rows \ {i})

\* C5: the batch correction turns the cumulative column c into period volumes
\* v with v[0] = 0 and v[i] = max(0, c[i] - c[i-1]), never negative
\* ([100, 150, 140, 200] gives [0, 50, 0, 60]), and the trailing volume average
\* and the volume/value signal are computed only after it, from the period
\* volumes.
C5_VolumeDelta ==
    /\ bpc \in {"volume_fixed", "volume_value"} =>
          /\ Len(df) = Len(cumIn)
          /\ \A i \in 1..Len(df) : df[i].volume = PeriodVolume(i) /\ df[i].volume >= 0
          /\ SubSeq(cumIn, 1, 4) = <<100, 150, 140, 200>> =>
                 <<df[1].volume, df[2].volume, df[3].volume, df[4].volume>>
                     = <<0, 50, 0, 60>>
    /\ bpc \in {"cleaned", "rows_ok", "volume_fixed"} =>
          DOMAIN bres \cap {"avg_volume", "volume_value_signal"} = {}
    /\ bpc = "volume_value" =>
          LET n == Cardinality(TrailingRows)
              total == PeriodSum(TrailingRows)
              last == PeriodVolume(Len(cumIn))
              sig == bres["volume_value_signal"]
          IN  /\ bres["avg_volume"][1] * n = total * bres["avg_volume"][2]
              /\ sig \in {"HIGH_VOLUME_HIGH_VALUE", "HIGH_VOLUME_LOW_VALUE"}
                     => last * n > total
              /\ sig = "PRICE_UP_LOW_VOLUME" => last * n < total

C5_Witness ==
    /\ bpc = "volume_value"
    /\ Len(cumIn) >= 20
    /\ SubSeq(cumIn, 1, 4) = <<100, 150, 140, 200>>
    /\ <<df[1].volume, df[2].volume, df[3].volume, df[4].volume>> = <<0, 50, 0, 60>>
    /\ bres["volume_value_signal"] = "HIGH_VOLUME_HIGH_VALUE"

(***************************************************************************)
(* CandleBuilder's claims.                                                 *)
(***************************************************************************)
\* floor(timestamp_seconds / 60) * 60
FloorBucket(t) == ((t.timestamp \div 1000) \div 60) * 60

\* C6: one update call.  If there is no current candle or the tick's bucket
\* differs from the current candle's, the call returns the current candle
\* (nothing when there was none) and the new current candle has timestamp =
\* bucket, open = high = low = close = price, volume = 0; otherwise it returns
\* nothing, high becomes max(high, price), low min(low, price), close the
\* price, and open and timestamp stay.
C6_UpdateContract ==
    [][ncalls' = ncalls + 1 =>
          LET t == tick'
              bucket == FloorBucket(t)
          IN  IF current = NoRef \/ heap[current].timestamp # bucket
              THEN /\ ret' = current
                   /\ ret' # NoRef => heap'[ret'] = heap[current]
                   /\ current' # NoRef
                   /\ current' # current
                   /\ heap'[current'] =
                         [timestamp |-> bucket, open |-> t.ltp, high |-> t.ltp,
                          low |-> t.ltp, close |-> t.ltp, volume |-> 0]
              ELSE /\ ret' = NoRef
                   /\ current' = current
                   /\ heap'[current].high =
                         (IF heap[current].high >= t.ltp THEN heap[current].high ELSE t.ltp)
                   /\ heap'[current].low =
                         (IF heap[current].low <= t.ltp THEN heap[current].low ELSE t.ltp)
                   /\ heap'[current].close = t.ltp
                   /\ heap'[current].open = heap[current].open
                   /\ heap'[current].timestamp = heap[current].timestamp
      ]_vars

\* a candle was finished and returned, and a later tick fell into the bucket
\* of the candle that followed it
C6_Witness ==
    /\ Len(emitted) >= 1
    /\ ret = NoRef
    /\ ncalls >= 3
    /\ heap[current].high > heap[current].open
    /\ heap[current].close < heap[current].high

WellFormed(c) ==
    /\ c.high >= c.open
    /\ c.high >= c.close
    /\ c.low <= c.open
    /\ c.low <= c.close
    /\ c.volume >= 0

\* C7: the current candle and every candle ever emitted satisfy
\* high >= open, high >= close, low <= open, low <= close and volume >= 0.
C7_CandleInvariant ==
    /\ current # NoRef => WellFormed(heap[current])
    /\ \A i \in 1..Len(emitted) :
           WellFormed(emitted[i].snap) /\ WellFormed(heap[emitted[i].ref])

C7_Witness ==
    \E i \in 1..Len(emitted) :
        /\ emitted[i].snap.high > emitted[i].snap.close
        /\ emitted[i].snap.low < emitted[i].snap.open
        /\ emitted[i].snap.volume > 0

\* C8: a tick whose bucket is earlier than the current candle's bucket is
\* dropped: nothing is emitted, the current candle and the last-seen
\* cumulative volume stay as they were, and no emitted candle changes.
C8_LateTickDropped ==
    [][(ncalls' = ncalls + 1 /\ current # NoRef
            /\ FloorBucket(tick') < heap[current].timestamp)
          => /\ ret' = NoRef
             /\ emitted' = emitted
             /\ current' = current
             /\ heap'[current] = heap[current]
             /\ prev_volume' = prev_volume
             /\ \A i \in 1..Len(emitted) : heap'[emitted[i].ref] = emitted[i].snap
      ]_vars

(***************************************************************************)
(* The live loop's claims.                                                 *)
(***************************************************************************)
\* C9: IndicatorEngine.update is called only with a candle that
\* CandleBuilder.update returned as finished, never with the candle still
\* being formed, and a candle passed to the engine is not changed by any
\* later CandleBuilder.update call.
C9_OnlyFinishedFed ==
    \A i \in 1..Len(fed) :
        /\ \E j \in 1..Len(emitted) : emitted[j] = fed[i]
        /\ fed[i].ref # current
        /\ heap[fed[i].ref] = fed[i].snap

\* a candle went to the engine and a later tick then changed the candle
\* being formed
C9_Witness ==
    /\ Len(fed) >= 1
    /\ result.status = "returned"
    /\ ret = NoRef
    /\ ncalls = MaxLoopTicks
    /\ heap[current].volume > 0
    /\ heap[current].close # heap[current].open

\* C10: whenever the updated avg_loss is exactly 0 the returned rsi is 100;
\* otherwise rsi = 100 - 100 / (1 + avg_gain / avg_loss).
C10_RsiConvention ==
    result.status = "returned" =>
        IF state.avg_loss[1] = 0
        THEN result.snapshot.rsi = R(100)
        ELSE result.snapshot.rsi =
                 RSub(R(100), RDiv(R(100), RAdd(R(1), RDiv(state.avg_gain, state.avg_loss))))

(***************************************************************************)
(* The batch analysis' claims.                                             *)
(***************************************************************************)
\* every one of the last RsiWindow close-to-close changes is a gain
AllGains(closes) ==
    /\ Len(closes) >= MinCandlesRsi
    /\ \A i \in (Len(closes) - RsiWindow + 1)..Len(closes) : closes[i] > closes[i - 1]

\* C11: over a candle window in which every close-to-close change is a gain,
\* each of the three batch RSI computations yields exactly 100: not 0, not
\* NaN, not an infinity.
C11_AllGainsIsHundred ==
    AllGains(closesIn) =>
        /\ "live_trend_analyzer" \in DOMAIN rsiOut =>
              /\ rsiOut["live_trend_analyzer"].raw = <<R(100)>>
              /\ rsiOut["live_trend_analyzer"].rsi = <<R(100)>>
        /\ "calculate_indecator" \in DOMAIN rsiOut =>
              /\ rsiOut["calculate_indecator"].raw = <<R(100)>>
              /\ rsiOut["calculate_indecator"].rsi = <<R(100)>>
        /\ "calculate_indicators" \in DOMAIN rsiOut =>
              /\ rsiOut["calculate_indicators"].status = "dict"
              /\ rsiOut["calculate_indicators"].rsi = R(100)

C11_Witness ==
    /\ AllGains(closesIn)
    /\ DOMAIN rsiOut = {"live_trend_analyzer", "calculate_indecator", "calculate_indicators"}
    /\ rsiOut["calculate_indicators"].rsi = R(100)

(***************************************************************************)
(* The bootstrap's claims.                                                 *)
(***************************************************************************)
\* C12: bootstrapping IndicatorState over the first K candles and then
\* calling IndicatorEngine.update once per remaining candle gives the same
\* EMAs, Wilder averages and ATR as one bootstrap over all K+N candles, and
\* the batch analysis uses the spans of the streaming path (12 and 26).
C12_StreamEqualsBatch ==
    boot.status # "none" =>
        /\ boot.status = "state"
        /\ IndicatorState_init(hist.df).status = "state"
        /\ LET s == StreamOver(boot.state,
                               SubSeq(hist.df, hist.k + 1, Len(hist.df)))
               b == IndicatorState_init(hist.df).state
           IN  /\ s.ema_fast = b.ema_fast
               /\ s.ema_slow = b.ema_slow
               /\ s.avg_gain = b.avg_gain
               /\ s.avg_loss = b.avg_loss
               /\ s.atr = b.atr
        /\ EmaShortSpan = EMA_FAST
        /\ EmaLongSpan = EMA_SLOW

(***************************************************************************)
(* The zero-volume VWAP.                                                   *)
(***************************************************************************)
\* the batch half: nothing traded gives the error dict and nothing else
BatchZeroQuantityIsError ==
    (bpc = "returned" /\ SumSeq(Column(df, "last_traded_qty")) = 0 /\ Len(df) >= MinRows)
        => DOMAIN bres = {"error"}

\* C13: when vwap_vol is 0 after the candle's volume was added,
\* IndicatorEngine.update reports an error: it returns no snapshot (no value,
\* no infinity, no NaN) and it does not raise an arithmetic exception.
C13_ZeroVolumeIsError ==
    (fed # <<>> /\ state.vwap_vol = R(0)) => result.status = "error"

(***************************************************************************)
(* The timestamp normalisation's claims.                                   *)
(***************************************************************************)
NumericCells(col) == {i \in 1..Len(col) : col[i].numeric}

\* M: the largest numeric timestamp of the column, as the integer it is
ExactMax(col) ==
    BigMaxOf([j \in 1..Len(SortedSeq(NumericCells(col))) |->
                 col[SortedSeq(NumericCells(col))[j]].v])

\* the unit is the one the thresholds assign to m
UnitMatches(unit, m) ==
    /\ unit = "ns" <=> BigGt(m, Pow1000(6))
    /\ unit = "us" <=> (BigGt(m, Pow1000(5)) /\ ~BigGt(m, Pow1000(6)))
    /\ unit = "ms" <=> (BigGt(m, Pow1000(4)) /\ ~BigGt(m, Pow1000(5)))
    /\ unit = "s" <=> ~BigGt(m, Pow1000(4))

\* the column holds ten or more numbers, its latest one is the instant t
\* and datetime64[ns] can hold t
HoldsInstant(t) ==
    /\ tsIn.meant # <<>>
    /\ tsIn.meant[1] = t
    /\ Cardinality(NumericCells(tsIn.col)) >= MinRows
    /\ ~BigGt(Shift(t, 3), MaxNs)

\* the latest row of the result is the instant t
ConvertsTo(t) ==
    /\ tsOut.status = "ok"
    /\ tsOut.timestamp[Len(tsOut.timestamp)] = Shift(t, 3)

LiveReturned ==
    /\ variant = "live_trend_analyzer"
    /\ bpc = "returned"
    /\ "error" \notin DOMAIN bres

\* the number of indicators the candle history allows: volume/value and VWAP
\* always, market structure from 2 candles, RSI from 15, EMA from 50
Computable ==
    2 + BoolInt(Len(df_5m) >= MinCandlesStructure)
      + BoolInt(Len(df_5m) >= MinCandlesRsi)
      + BoolInt(Len(df_5m) >= MinCandlesEma)

\* the number of indicators whose label in the result is the bullish one
BullishLabels ==
    BoolInt(bres["volume_value_signal"] = "HIGH_VOLUME_HIGH_VALUE")
    + BoolInt(bres["vwap_signal"] = "PRICE_ABOVE_VWAP")
    + BoolInt(bres["market_structure"] = "BULLISH_HH_HL")
    + BoolInt(bres["ema_signal"] = "EMA20_ABOVE_EMA50")
    + BoolInt(bres["rsi_signal"] = "RSI_BULLISH_ZONE")

ScoreInRange ==
    LiveReturned =>
        /\ bres["max_score"] \in 2..5
        /\ 0 <= bres["bullish_score"]
        /\ bres["bullish_score"] <= bres["max_score"]

\* C15: in every non-error result max_score is the number of computable
\* indicators and lies in 2..5, and bullish_score is the number of computable
\* indicators that carry their bullish label, so 0 <= bullish_score <=
\* max_score.
C15_ScoreCounts ==
    LiveReturned =>
        /\ bres["max_score"] = Computable
        /\ bres["max_score"] \in 2..5
        /\ bres["bullish_score"] = BullishLabels
        /\ 0 <= bres["bullish_score"]
        /\ bres["bullish_score"] <= bres["max_score"]

\* C16: in every non-error result overall_signal is decided by
\* p = 100 * bullish_score / max_score alone (STRONG_BULLISH iff p >= 80,
\* BULLISH iff 60 <= p < 80, NEUTRAL iff 40 <= p < 60, BEARISH iff p < 40),
\* and the recommendation names the same bullish_score/max_score pair.
C16_OverallFromPercentage ==
    LiveReturned =>
        LET b == bres["bullish_score"]
            m == bres["max_score"]
            o == bres["overall_signal"]
            text == bres["recommendation"]
        IN  /\ m > 0
            /\ o = "STRONG_BULLISH" <=> 100 * b >= 80 * m
            /\ o = "BULLISH" <=> (60 * m <= 100 * b /\ 100 * b < 80 * m)
            /\ o = "NEUTRAL" <=> (40 * m <= 100 * b /\ 100 * b < 60 * m)
            /\ o = "BEARISH" <=> 100 * b < 40 * m
            /\ text = <<CASE o = "STRONG_BULLISH" -> "BUY - Strong signal"
                          [] o = "BULLISH" -> "BUY - Moderate signal"
                          [] o = "NEUTRAL" -> "WAIT - Mixed signals"
                          [] OTHER -> "AVOID - Weak signals", b, m>>

C16_Witness ==
    /\ LiveReturned
    /\ bres["bullish_score"] = 3
    /\ bres["max_score"] = 5
    /\ bres["overall_signal"] = "BULLISH"

\* the call has returned, from ten valid rows or more with something traded
ReturnedWithTrades ==
    /\ bpc = "returned"
    /\ Len(df) >= MinRows
    /\ SumSeq(Column(df, "last_traded_qty")) # 0

\* what live_trend_analyzer.py does with a short history: no error, and
\* every indicator that lacks candles is marked and left out of the score
LiveProceedsWithFewer ==
    (ReturnedWithTrades /\ variant = "live_trend_analyzer") =>
        /\ "error" \notin DOMAIN bres
        /\ Len(df_5m) < MinCandlesStructure => bres["market_structure"] = "N/A"
        /\ Len(df_5m) < MinCandlesRsi => bres["rsi_signal"] = "INSUFFICIENT_DATA"
        /\ Len(df_5m) < MinCandlesEma =>
              /\ bres["ema_signal"] = "INSUFFICIENT_DATA"
              /\ bres["max_score"] =
                    2 + BoolInt(Len(df_5m) >= MinCandlesStructure)
                      + BoolInt(Len(df_5m) >= MinCandlesRsi)

\* C17: with ten valid rows or more and a non-zero cumulative quantity,
\* calculate_intraday_indicators (either module) returns a result without an
\* error key whatever the number of five-minute candles, and with fewer than
\* 50 candles ema_signal is not EMA20_ABOVE_EMA50.
C17_NeverFailsForHistory ==
    ReturnedWithTrades =>
        /\ "error" \notin DOMAIN bres
        /\ Len(df_5m) < MinCandlesEma => bres["ema_signal"] # "EMA20_ABOVE_EMA50"

\* the message decodes: parse_market_data returns a dict
Decodes(m) == m.kind = "bytes" /\ parse_market_data(m.data).status = "ok"
FailsToDecode(m) == m.kind = "bytes" /\ parse_market_data(m.data).status = "error"

\* the table holds a row for the tick of message m
Stored(table, m) ==
    LET row == RowOf(parse_market_data(m.data).rec)
    IN  \E i \in 1..Len(table) : Collides(table[i], row)

\* C18: in every sequence of messages given to on_message, each call returns
\* normally; a frame that fails to decode and a non-binary message leave the
\* stored ticks as they were; every well-formed frame, after whatever frames
\* failed before it, is decoded and its tick is in the table, with the rows
\* stored before it kept.
C18_BadFrameIsDiscarded ==
    /\ \A i \in 1..Len(handled) :
          LET h == handled[i]
          IN  /\ h.outcome = "returned"
              /\ h.before = (IF i = 1 THEN <<>> ELSE handled[i - 1].after)
              /\ ~Decodes(h.msg) => h.after = h.before
              /\ h.msg.kind # "bytes" => h.log = None
              /\ FailsToDecode(h.msg) => h.log \in {"struct.error", "UnicodeDecodeError"}
              /\ Decodes(h.msg) =>
                    /\ Stored(h.after, h.msg)
                    /\ Len(h.after) >= Len(h.before)
                    /\ SubSeq(h.after, 1, Len(h.before)) = h.before
    /\ handled # <<>> => market_ticks = handled[Len(handled)].after

\* a frame that fails, later a text message, later a well-formed frame that
\* adds its row
C18_Witness ==
    /\ Len(handled) = 3
    /\ FailsToDecode(handled[1].msg)
    /\ handled[2].msg.kind = "text"
    /\ Decodes(handled[3].msg)
    /\ Len(market_ticks) = 1
    /\ Stored(market_ticks, handled[3].msg)

\* the rows of s whose key no earlier row of s has
FirstOfKey(s) ==
    LET keep == {k \in 1..Len(s) : \A j \in 1..(k - 1) : ~Collides(s[j], s[k])}
        F[k \in 0..Len(s)] ==
            IF k = 0 THEN <<>>
            ELSE IF k \in keep THEN Append(F[k - 1], s[k]) ELSE F[k - 1]
    IN  F[Len(s)]

UniqueKeys ==
    \A i, j \in 1..Len(market_ticks) :
        i # j => KeyOf(market_ticks[i]) # KeyOf(market_ticks[j])

InCriticalSection(t) == tpc[t] \in {"execute", "commit", "release"}

\* C19: whatever calls of insert_market_tick have run, from either thread,
\* market_ticks holds at most one row per (token, exchange_timestamp), its
\* rows are the first inserted of each pair (a later duplicate changes
\* nothing), and insert and commit of a call run with the module lock held
\* by that call: no other call is between them, and whenever the lock is
\* free every row is committed.
C19_OneRowPerKeyUnderLock ==
    /\ UniqueKeys
    /\ market_ticks = FirstOfKey(executed)
    /\ \A t \in Threads : InCriticalSection(t) => lock = t
    /\ lock = 0 => durable = Len(market_ticks)
    /\ durable <= Len(market_ticks)

\* thread 1 has run the insert of a second, different tick of a stored pair
\* and is about to commit while thread 2 waits for the lock
C19_Witness ==
    /\ Len(executed) = 2
    /\ Collides(executed[1], executed[2])
    /\ executed[1] # executed[2]
    /\ market_ticks = <<executed[1]>>
    /\ tpc[1] = "commit"
    /\ tpc[2] = "acquire"

\* a turn of the loop in which engine.update was called
EngineCalled == fed' # fed

\* the values that read the previous close, from the close on entry
AgainstEntryClose ==
    LET c    == fed'[Len(fed')].snap
        prev == state.prev_close
        change == RSub(R(c.close), prev)
        tr   == RMax(RSub(R(c.high), R(c.low)),
                     RMax(RAbs(RSub(R(c.high), prev)), RAbs(RSub(R(c.low), prev))))
    IN  /\ state'.avg_gain = Wilder(state.avg_gain, RMax(change, R(0)), RSI_PERIOD)
        /\ state'.avg_loss = Wilder(state.avg_loss, RMax(RSub(R(0), change), R(0)),
                                    RSI_PERIOD)
        /\ state'.atr = Wilder(state.atr, tr, ATR_PERIOD)
        /\ result'.status = "returned" =>
              result'.snapshot.lagged_return = Divide(change, prev, state.np_prev).val

PrevCloseIsCandleClose == state'.prev_close = R(fed'[Len(fed')].snap.close)

\* the calls that return do as stated
ReturningCallSetsPrevClose ==
    [][(EngineCalled /\ result'.status = "returned") =>
          (AgainstEntryClose /\ PrevCloseIsCandleClose)]_vars

\* a call that raises has read the entry close and leaves it in place
RaisingCallKeepsPrevClose ==
    [][(EngineCalled /\ result'.status = "raised") =>
          (AgainstEntryClose /\ state'.prev_close = state.prev_close)]_vars

\* C20: in every call of IndicatorEngine.update the price change, the true
\* range and the lagged return are taken against state.prev_close as it was
\* on entry, and after the call state.prev_close is the close of the candle
\* passed in.
C20_PrevCloseLast ==
    [][EngineCalled => (AgainstEntryClose /\ PrevCloseIsCandleClose)]_vars

\* the last VOL_AVG_PERIOD values of w followed by v
LastVolumes(w, v) ==
    LET a == Append(w, v)
    IN  SubSeq(a, Max(1, Len(a) - VOL_AVG_PERIOD + 1), Len(a))

\* volume > 1.5 * mean(window), in exact rationals
SpikeOf(volume, window) ==
    RLt(RMul(<<3, 2>>, RNorm(SumSeq(window), Len(window))), R(volume))

\* the window after the call is the window before it with the candle's
\* volume pushed and the oldest value dropped beyond capacity
WindowPushed ==
    /\ state'.vol_window = LastVolumes(state.vol_window, fed'[Len(fed')].snap.volume)
    /\ Len(state'.vol_window) <= VOL_AVG_PERIOD

SpikeFromWindow ==
    result'.status = "returned" =>
        LET volume == fed'[Len(fed')].snap.volume
            spike  == result'.snapshot.volume_spike
        IN  /\ spike <=> SpikeOf(volume, state'.vol_window)
            /\ (\A i \in 1..Len(state'.vol_window) : state'.vol_window[i] = volume)
                  => ~spike

\* the calls that get past the VWAP division do as stated
CallPastVwapPushesVolume ==
    [][(EngineCalled /\ state'.vol_window # state.vol_window) =>
          (WindowPushed /\ SpikeFromWindow)]_vars

ReturningCallPushesVolume ==
    [][(EngineCalled /\ result'.status = "returned") =>
          (WindowPushed /\ SpikeFromWindow)]_vars

CalledWithZeroPrevClose ==
    /\ EngineCalled
    /\ state.prev_close = R(0)
    /\ state'.vwap_vol # R(0)

\* C22: a call of IndicatorEngine.update entered with state.prev_close = 0
\* returns a snapshot whose lagged_return is undefined (not a number: no
\* infinity and no exception), with every other indicator advanced and
\* state.prev_close set to the candle's close.
C22_ZeroPrevCloseSkipsReturn ==
    [][CalledWithZeroPrevClose =>
          /\ result'.status = "returned"
          /\ IsNaN(result'.snapshot.lagged_return)
          /\ AgainstEntryClose
          /\ WindowPushed
          /\ PrevCloseIsCandleClose]_vars

\* what the code does instead: plain numbers raise and leave prev_close at 0,
\* a numpy prev_close gives an infinity for a non-zero close
ZeroPrevCloseDivides ==
    [][CalledWithZeroPrevClose =>
          IF state.np_prev
          THEN /\ result'.status = "returned"
               /\ result'.snapshot.lagged_return =
                     NumpyDivZero(R(fed'[Len(fed')].snap.close))
               /\ PrevCloseIsCandleClose
          ELSE /\ result' = [status |-> "raised", err |-> "ZeroDivisionError"]
               /\ state'.prev_close = R(0)]_vars

\* the candles the engine was fed since it was built: the live session
FedVolume == SumSeq([i \in 1..Len(fed) |-> fed[i].snap.volume])
FedValue == SumSeq([i \in 1..Len(fed) |-> fed[i].snap.close * fed[i].snap.volume])

\* C23: the vwap the engine reports is the volume-weighted price of the
\* candles of the running session only: the sums taken over the bootstrap
\* history, which belongs to earlier sessions, have been reset and take no
\* part in it.
C23_VwapOfSessionOnly ==
    (result.status = "returned" /\ FedVolume # 0) =>
        result.snapshot.vwap = RNorm(FedValue, FedVolume)

\* what the code reports: the sums are never reset, so every snapshot carries
\* the history's sums together with the live candles
VwapOverEverything ==
    [][(EngineCalled /\ result'.status = "returned") =>
          /\ state'.vwap_pv = RAdd(state.vwap_pv,
                                  R(fed'[Len(fed')].snap.close * fed'[Len(fed')].snap.volume))
          /\ state'.vwap_vol = RAdd(state.vwap_vol, R(fed'[Len(fed')].snap.volume))
          /\ state'.vwap_vol # R(0) =>
                result'.snapshot.vwap = RDiv(state'.vwap_pv, state'.vwap_vol)]_vars

\* the stated rule on the last ten candles: two peaks or more with the latest
\* above the one before, two troughs or more with the latest above the one
\* before, and no low after the earlier of those two troughs below it
StatedBullish(d) ==
    LET highs == TailOf(Column(d, "high"), StructureWindow)
        lows  == TailOf(Column(d, "low"), StructureWindow)
        P == PeakPositions(highs)
        T == TroughPositions(lows)
    IN  /\ \E p1, p2 \in P :
              /\ p1 < p2
              /\ \A p \in P : p <= p1 \/ p = p2
              /\ highs[p2] > highs[p1]
        /\ \E t1, t2 \in T :
              /\ t1 < t2
              /\ \A t \in T : t <= t1 \/ t = t2
              /\ lows[t2] > lows[t1]
              /\ \A j \in (t1 + 1)..Len(lows) : lows[j] >= lows[t1]

TechnicalBullish ==
    LET r == msOut["calculate_indicators"] IN r # <<>> /\ r[1].is_bullish

\* C24: calculate_market_structure reports is_bullish exactly when the
\* stated rule holds on the last ten candles, and the market structure of
\* live_trend_analyzer is bullish under the same rule.
C24_BullishIffSwings ==
    /\ "calculate_indicators" \in DOMAIN msOut =>
          (TechnicalBullish <=> StatedBullish(msIn))
    /\ "live_trend_analyzer" \in DOMAIN msOut =>
          (msOut["live_trend_analyzer"] = "BULLISH_HH_HL" <=> StatedBullish(msIn))

\* the part that holds: without two peaks or without two troughs the swing
\* computation is never bullish
TechnicalNeedsTwoSwings ==
    ("calculate_indicators" \in DOMAIN msOut /\ TechnicalBullish) =>
        /\ Cardinality(PeakPositions(TailOf(Column(msIn, "high"), StructureWindow))) >= 2
        /\ Cardinality(TroughPositions(TailOf(Column(msIn, "low"), StructureWindow))) >= 2

\* the bucket timestamps of a candle history are strictly increasing
BucketsIncrease(h) ==
    \A i, j \in 1..Len(h) : i < j => h[i].snap.timestamp < h[j].snap.timestamp

\* the ticks arrived in timestamp order
InOrder == seen.time_ordered

\* for ticks in timestamp order the candles do come out in bucket order
InOrderTicksGiveOrderedCandles ==
    InOrder => BucketsIncrease(emitted)

\* C25: whatever the order of the ticks, the candles CandleBuilder has
\* emitted have strictly increasing bucket timestamps, and so have the
\* candles the indicator engine was given.
C25_CandlesInBucketOrder ==
    /\ BucketsIncrease(emitted)
    /\ BucketsIncrease(fed)

\* the volume the builder has accounted for: every emitted candle and the
\* current one
CountedVolume ==
    SumSeq([i \in 1..Len(emitted) |-> emitted[i].snap.volume])
    + (IF current = NoRef THEN 0 ELSE heap[current].volume)

\* ticks in timestamp order whose cumulative volume never fell
OrderedFeed == ncalls >= 1 /\ seen.time_ordered /\ seen.volume_ordered

TradedVolume == tick.volume - seen.first[1]

\* what does hold: nothing is counted twice, and within the first bucket
\* nothing is lost
VolumeNeverInvented ==
    OrderedFeed =>
        /\ CountedVolume <= TradedVolume
        /\ emitted = <<>> => CountedVolume = TradedVolume

\* C27: for ticks in timestamp order with non-decreasing cumulative volume
\* the volumes of all emitted candles plus the current candle add up to the
\* last cumulative volume minus the first.
C27_NoVolumeLost ==
    OrderedFeed => CountedVolume = TradedVolume

RECURSIVE Alone(_, _)
\* a builder and an engine run on their own over ticks, in a heap of their
\* own: acc is [b, st, outs]
Alone(acc, ticks) ==
    IF ticks = <<>> THEN acc
    ELSE LET u == CandleBuilder_update(acc.b, Head(ticks))
             e == IndicatorEngine_update(acc.st, u.b.heap[u.ret])
         IN  Alone(IF u.ret = NoRef
                   THEN [acc EXCEPT !.b = u.b]
                   ELSE [b |-> u.b, st |-> e.st, outs |-> Append(acc.outs, e.res)],
                   Tail(ticks))

AloneOf(s) ==
    Alone([b |-> [heap |-> <<>>, current |-> NoRef, prev_volume |-> <<>>],
           st |-> born[s], outs |-> <<>>],
          OwnTicks(calls, s))

\* C26: however the update calls of the two securities are interleaved, each
\* security's builder (its current candle and last-seen volume), engine state
\* and returned snapshots are what they would be had its own ticks been
\* processed alone.
C26_InstancesIndependent ==
    \A s \in Securities :
        LET a == AloneOf(s)
        IN  /\ engines[s] = a.st
            /\ outs[s] = a.outs
            /\ builders[s].prev_volume = a.b.prev_volume
            /\ (builders[s].current = NoRef) <=> (a.b.current = NoRef)
            /\ builders[s].current # NoRef =>
                  pheap[builders[s].current] = a.b.heap[a.b.current]

\* the two loops took turns, both engines have returned a snapshot, and the
\* two securities hold different candles and different states
C26_Witness ==
    /\ Len(calls) = 4
    /\ calls[1].s = 1 /\ calls[2].s = 2 /\ calls[3].s = 1 /\ calls[4].s = 2
    /\ \A s \in Securities : Len(outs[s]) = 1 /\ outs[s][1].status = "returned"
    /\ engines[1] # engines[2]
    /\ outs[1][1].snapshot.close # outs[2][1].snapshot.close

(***************************************************************************)
(* The reconnecting client's claims.                                       *)
(***************************************************************************)
\* The delays of the closes since the last successful open (at most five
\* of them sleep).
SleptSinceOpen ==
    LET n == IF streak < 5 THEN streak ELSE 5
    IN  SubSeq(slept, Len(slept) - n + 1, Len(slept))

CounterInRange == reconnect_count \in 0..5

\* While the client runs, the counter is the number of closes since the
\* last successful open, and the n-th of them slept 5 * 2^(n-1) seconds.
DelaysDouble ==
    /\ conn # "stopped" => reconnect_count = streak
    /\ Len(slept) >= Len(SleptSinceOpen)
    /\ \A n \in 1..Len(SleptSinceOpen) : SleptSinceOpen[n] = 5 * (2 ^ (n - 1))

OpenResets == conn = "open" => reconnect_count = 0

\* The first five closes in a row reconnect; the sixth does not.
SixthCloseGivesUp ==
    /\ streak <= 6
    /\ conn = "stopped" <=> streak = 6
    /\ conn = "stopped" => reconnect_count = 5

ReconnectSafe ==
    /\ CounterInRange
    /\ DelaysDouble
    /\ OpenResets
    /\ SixthCloseGivesUp

\* C28: reconnect_count is always in 0..5; the n-th close in a row without
\* a successful open in between waits 5 * 2^(n-1) seconds (5, 10, 20, 40,
\* 80) before reconnecting; every successful open sets the counter back to
\* 0; after five failed reconnects in a row a further close starts no new
\* connection; and a client that the server stops accepting eventually
\* stops.
C28_BoundedReconnect ==
    /\ []ReconnectSafe
    /\ (<>[](conn # "open")) => <>(conn = "stopped")

\* The client has been connected, was then refused five reconnects in a
\* row, and has stopped.
C28_Witness ==
    /\ conn = "stopped"
    /\ opens > 0
    /\ Len(slept) > 5
    /\ SleptSinceOpen = <<5, 10, 20, 40, 80>>

(***************************************************************************)
(* The score against the labels and the list of indicators.                *)
(***************************************************************************)
\* what the checks other than the RSI's add to bullish_score, read off the
\* result: the labels, and for the EMA the two returned values as well
OtherChecks ==
    BoolInt(bres["volume_value_signal"] = "HIGH_VOLUME_HIGH_VALUE")
    + BoolInt(bres["vwap_signal"] = "PRICE_ABOVE_VWAP")
    + BoolInt(bres["market_structure"] = "BULLISH_HH_HL")
    + BoolInt(/\ bres["ema_signal"] = "EMA20_ABOVE_EMA50"
              /\ bres["ema_20"][1] # 0
              /\ bres["ema_50"][1] # 0)

RsiAddsOne == bres["bullish_score"] - OtherChecks = 1

\* the RSI never adds anything but 0 or 1, and a bullish label is always
\* counted
RsiBullishLabelIsCounted ==
    LiveReturned =>
        /\ bres["bullish_score"] - OtherChecks \in {0, 1}
        /\ bres["rsi_signal"] = "RSI_BULLISH_ZONE" => RsiAddsOne

\* C29: in every non-error result the RSI adds 1 to bullish_score iff
\* rsi_signal is RSI_BULLISH_ZONE, also for an RSI just outside [55, 70]
\* that rounds to 55 or 70.
C29_RsiLabelMatchesScore ==
    LiveReturned => (RsiAddsOne <=> bres["rsi_signal"] = "RSI_BULLISH_ZONE")

Listed(name) ==
    \E i \in 1..Len(bres["available_indicators"]) :
        bres["available_indicators"][i] = name

\* max_score never exceeds the list, and falls short of it only by an EMA
\* that was computed and rounds to 0.0
MaxScoreMissesOnlyZeroEma ==
    LiveReturned =>
        LET short == Len(bres["available_indicators"]) - bres["max_score"]
        IN  /\ short \in {0, 1}
            /\ short = 1 <=>
                 /\ Listed("EMA Crossover")
                 /\ (bres["ema_20"][1] = 0 \/ bres["ema_50"][1] = 0)

\* C30: in every non-error result max_score is the number of entries of
\* available_indicators (an indicator is listed iff it is counted), also
\* when a computed EMA rounds to 0.0.
C30_MaxScoreCountsListed ==
    LiveReturned => bres["max_score"] = Len(bres["available_indicators"])

====
